---- MODULE Spec2Model ----
(***************************************************************************)
(* Pre-ranking engine: the event ingestion loop (SuiService.pollEvents),   *)
(* the intent lifecycle coordinator (IntentProcessingService) and the      *)
(* Redis-backed intent store, cursor store and ranking queue               *)
(* (RedisService).                                                         *)
(*                                                                         *)
(* Every async method is cut at its awaits that wait for I/O: one action   *)
(* is the code that runs between two such suspension points.  An emit()    *)
(* of the event emitter runs the synchronous prefix of the listener        *)
(* inside the emitting action and does not wait for the listener.          *)
(***************************************************************************)
EXTENDS Integers, Sequences, FiniteSets, TLC

\* ---------------------------------------------------------------- bounds
NumIntents   == 1   \* distinct intent ids on chain
NumSolutions == 1   \* distinct solution ids on chain
MaxChain     == 2   \* chain events emitted in a run
MaxHandoffs  == 3   \* events handed to the coordinator in a run
MaxTicks     == 2   \* poll ticks whose executions may overlap
MaxManual    == 1   \* manual triggerSendToRanking calls in a run
MaxCrashes   == 1   \* process restarts in a run
MaxErrors    == 3   \* entries in a validator's error list
MaxTime      == 2   \* latest time of a window end or a submission
MaxAmount    == 3   \* largest amount of an asset, of gas and of a price
MaxChanges   == 1   \* balance changes in a dry-run result
MaxEntries   == 1   \* entries of a list the feature extraction reads
\* the limit pollEvents passes to each of its two queries
QueryLimit   == 50

Intents   == 1..NumIntents
Solutions == 1..NumSolutions
TickIds   == 1..MaxTicks

VARIABLES
  chain,          \* the chain's event log; an event's position is its index
  eventCursor,    \* SuiService.eventCursor (0 = null)
  storedCursor,   \* Redis key sui:event:cursor (0 = absent)
  ticks,          \* executions of the setInterval callback
  handlers,       \* running handleIntentSubmitted / handleSolutionSubmitted
  contexts,       \* the live IntentContext objects, by object identity
  activeIntents,  \* IntentProcessingService.activeIntents: id -> context (0 = none)
  timers,         \* pending window-close timeouts per intent id
  flushes,        \* running sendToRankingService calls
  intentKey,      \* Redis keys intent:<i>
  solutionKey,    \* Redis keys solution:<i>:<s>
  failedKey,      \* Redis keys failed:<i>:<s>
  passedSet,      \* Redis sets solution:<i>:passed
  failedSet,      \* Redis sets failed:<i>:set
  rankingQueue,   \* Redis list ranking:queue
  redisQ,         \* commands sent on the one Redis connection, served in order
  handedBy,       \* history: per position, number of ticks that handed it off
  droppedOpening, \* history: solutions dropped while their intent was opening
  terminated,     \* history: intents whose context a flush has removed
  delivered,      \* history: positions whose handler has finished its store writes
  fetched,        \* history: positions whose solution blob fetch has resolved
  lost,           \* history: intents whose ranking enqueue has been rejected
  pipeline,       \* a call of PreRankingService.processSingleSolution
  validation,     \* a call of ConstraintValidator.validate / validateComplexConstraints
  extraction,     \* processSingleSolution from its call of extractFeatures on
  listener,       \* SuiService.isListening, pollingInterval and the live timers
  nHand, nManual, nCrash

vars == <<chain, eventCursor, storedCursor, ticks, handlers, contexts,
          activeIntents, timers, flushes, intentKey, solutionKey, failedKey,
          passedSet, failedSet, rankingQueue, redisQ, handedBy,
          droppedOpening, terminated, delivered, fetched, lost, pipeline,
          validation, extraction, listener, nHand, nManual, nCrash>>

ingestVars == <<eventCursor, storedCursor, ticks>>
coordVars  == <<contexts, activeIntents, timers, flushes>>
storeVars  == <<intentKey, solutionKey, failedKey, passedSet, failedSet>>
histVars   == <<handedBy, droppedOpening, terminated, delivered, fetched,
               lost>>

\* ------------------------------------------------------------ chain events
IntentEvent(i)      == [kind |-> "intent", intentId |-> i, solutionId |-> 0]
SolutionEvent(i, s) == [kind |-> "solution", intentId |-> i, solutionId |-> s]
ChainEvents == {IntentEvent(i) : i \in Intents}
               \cup {SolutionEvent(i, s) : i \in Intents, s \in Solutions}

Min(a, b) == IF a <= b THEN a ELSE b

RECURSIVE Ascending(_)
\* the positions of a set as an ascending sequence
Ascending(S) ==
  IF S = {} THEN <<>>
  ELSE LET m == CHOOSE x \in S : \A y \in S : x <= y
       IN <<m>> \o Ascending(S \ {m})

\* client.queryEvents({MoveEventType}, cursor, limit, 'ascending'): the first
\* `limit` events of the type that lie strictly after the cursor
queryEvents(kind, cursor, limit) ==
  LET all == Ascending({p \in (cursor + 1)..Len(chain) : chain[p].kind = kind})
  IN SubSeq(all, 1, Min(limit, Len(all)))

\* a tick: where pollEvents is suspended, the cursor passed to the pending
\* query, the intent events received and the events handed off, in order
IdleTick == [pc |-> "idle", arg |-> 0, intentEvents |-> <<>>, handed |-> <<>>]

\* IntentContext objects; a slot no reference leads to holds NoContext
CtxIds    == 1..MaxHandoffs
NoContext == [intentId |-> 0, passedSolutionCount |-> 0]

\* an object lives while the map or a running handler refers to it
Collect(ctxs, map, hs) ==
  [c \in CtxIds |->
     IF (\E i \in Intents : map[i] = c) \/ (\E h \in hs : h.ctx = c)
     THEN ctxs[c] ELSE NoContext]

\* the n smallest ids of a set, ascending
FirstFree(S, n) == SubSeq(Ascending(S), 1, n)

\* the client whose command the Redis server answers next
Served(kind, id) == redisQ # <<>> /\ Head(redisQ) = <<kind, id>>
HandlerIds == 1..MaxHandoffs
FlushIds   == 1..(MaxHandoffs + MaxManual)

\* ---------------------------------------------------- pre-ranking pipeline
\* what constraintValidator.validate / validateComplexConstraints may hand
\* back: the errors (by severity) with isValid = no entry of severity error,
\* or a rejection
ErrorLists == UNION {[1..k -> {"error", "warning"}] : k \in 0..MaxErrors}
ValidationOutcomes ==
  {[threw |-> FALSE, errors |-> e,
    isValid |-> ~ \E k \in 1..Len(e) : e[k] = "error"] : e \in ErrorLists}
  \cup [threw : {TRUE}, isValid : {FALSE}, errors : {<<>>}]

\* what suiService.dryRunTransactionBlock may hand back: effects.status with
\* its optional error ("" = absent), or a rejection
DryRunOutcomes ==
  [threw : {FALSE}, status : {"success", "failure"}, error : {"", "Insufficient balance"}]
  \cup [threw : {TRUE}, status : {""}, error : {""}]

NoValidation == [threw |-> FALSE, isValid |-> FALSE, errors |-> <<"none">>]
NoDryRun     == [threw |-> FALSE, status |-> "none", error |-> ""]
NoResult     == [passed |-> FALSE, failureReason |-> "none", errors |-> <<>>,
                 features |-> FALSE, thrown |-> FALSE]

\* a call of processSingleSolution: where it is suspended, what each
\* collaborator returned, the collaborators invoked so far and the value
\* returned to the caller
IdlePipeline ==
  [pc |-> "idle", validationResult |-> NoValidation, dryRunResult |-> NoDryRun,
   complexValidationResult |-> NoValidation, calls |-> <<>>, result |-> NoResult]

\* ---------------------------------------------------- constraint validator
Assets  == {"SUI", "USDC"}
Owners  == {"user", "solver"}
Times   == 0..MaxTime
Amounts == 0..MaxAmount

\* an optional field that is not there
Undefined == -1
\* what the extractors return when they find nothing
Null == -1

\* an entry of ValidationResult.errors; assetId is the asset its message names
ValidationError(field, severity, assetId) ==
  [field |-> field, severity |-> severity, assetId |-> assetId]

\* a result that is valid only without entries
StrictResult(errors) == [isValid |-> errors = <<>>, errors |-> errors]

\* { isValid: errors.filter((e) => e.severity === 'error').length === 0, errors }
ValidationResult(errors) ==
  [isValid |-> ~ \E k \in 1..Len(errors) : errors[k].severity = "error",
   errors |-> errors]

RECURSIVE Flatten(_)
\* the errors pushed by the iterations of a loop, in order
Flatten(pushed) ==
  IF pushed = <<>> THEN <<>> ELSE Head(pushed) \o Flatten(Tail(pushed))

\* the index Array.prototype.find stops at
First(S) == CHOOSE k \in S : \A j \in S : k <= j

\* whether a list includes a value
Includes(list, v) == \E k \in 1..Len(list) : list[k] = v

\* constraints.routing, constraints.limitPrice and intent.constraints when
\* they are not declared; an absent list is an empty one to every check
NoRouting ==
  [declared |-> FALSE, maxHops |-> Undefined, blacklistProtocols |-> <<>>,
   whitelistProtocols |-> <<>>]
NoLimitPrice ==
  [declared |-> FALSE, price |-> 0, comparison |-> "gte", priceAsset |-> ""]
NoConstraints ==
  [declared |-> FALSE, deadlineMs |-> Undefined, maxInputs |-> <<>>,
   routing |-> NoRouting, minOutputs |-> <<>>, maxSlippageBps |-> Undefined,
   maxGasCost |-> Undefined, limitPrice |-> NoLimitPrice]
\* a constraints object that declares nothing
EmptyConstraints == [NoConstraints EXCEPT !.declared = TRUE]

\* a swap of one SUI for USDC without constraints and expected outcome
PlainIntent ==
  [userAddress |-> "user", constraints |-> NoConstraints,
   expectedOutputs |-> <<>>,
   inputs |-> <<[assetId |-> "SUI", type |-> "exact", value |-> 1, decimals |-> 0]>>,
   outputs |-> <<[assetId |-> "USDC", decimals |-> 0]>>]

\* a dry-run result without balance changes and without effects.gasUsed
NoGasUsed ==
  [declared |-> FALSE, computationCost |-> 0, storageCost |-> 0,
   storageRebate |-> Undefined]
EmptyDryRun == [balanceChanges |-> <<>>, gasUsed |-> NoGasUsed]

\* a parse that finds one input, one hop and one protocol in the bytes
parseOneHop(transactionBytes) ==
  [inputs |-> <<[assetId |-> "SUI", amount |-> MaxAmount]>>, outputs |-> <<>>,
   protocols |-> <<"amm">>, hops |-> 1, gasCost |-> 0]

\* parseTransactionBytes: a stub that finds nothing in the bytes
parseTransactionBytes(transactionBytes) ==
  [inputs |-> <<>>, outputs |-> <<>>, protocols |-> <<>>, hops |-> 0,
   gasCost |-> 0]

\* the deadline check alone, made of every intent
validateDeadline(windowEndMs, intent, submittedAt) ==
  ValidationResult(IF submittedAt > windowEndMs
                   THEN <<ValidationError("constraints.deadlineMs", "error", "")>>
                   ELSE <<>>)

\* validate: Phase 1, the checks that need no dry run
validate(windowEndMs, intent, submittedAt) ==
  LET constraints == intent.constraints
      parsedTx == parseTransactionBytes("mockTxBytes")
      deadline ==
        IF submittedAt > windowEndMs
        THEN <<ValidationError("constraints.deadlineMs", "error", "")>>
        ELSE <<>>
      maxInput(k) ==
        LET maxInput == constraints.maxInputs[k]
            found == {j \in 1..Len(parsedTx.inputs) :
                        parsedTx.inputs[j].assetId = maxInput.assetId}
        IN IF found # {} /\ parsedTx.inputs[First(found)].amount > maxInput.amount
           THEN <<ValidationError("constraints.maxInputs", "error", maxInput.assetId)>>
           ELSE <<>>
      maxInputs == Flatten([k \in 1..Len(constraints.maxInputs) |-> maxInput(k)])
      routing == constraints.routing
      blocked(protocol) == Includes(routing.blacklistProtocols, protocol)
      nonWhitelisted(protocol) == ~Includes(routing.whitelistProtocols, protocol)
      maxHops ==
        IF routing.maxHops # Undefined /\ parsedTx.hops > routing.maxHops
        THEN <<ValidationError("constraints.routing.maxHops", "error", "")>>
        ELSE <<>>
      blacklist ==
        IF /\ Len(routing.blacklistProtocols) > 0
           /\ Len(SelectSeq(parsedTx.protocols, blocked)) > 0
        THEN <<ValidationError("constraints.routing.blacklistProtocols", "error", "")>>
        ELSE <<>>
      whitelist ==
        IF /\ Len(routing.whitelistProtocols) > 0
           /\ Len(SelectSeq(parsedTx.protocols, nonWhitelisted)) > 0
        THEN <<ValidationError("constraints.routing.whitelistProtocols", "error", "")>>
        ELSE <<>>
  IN IF ~constraints.declared THEN ValidationResult(<<>>)
     ELSE ValidationResult(
            deadline \o maxInputs
            \o (IF routing.declared THEN maxHops \o blacklist \o whitelist ELSE <<>>))

\* extractOutputFromDryRun: the amount of the first balance change of the
\* coin type with a positive amount
extractOutputFromDryRun(dryRunResult, assetId) ==
  LET bc == dryRunResult.balanceChanges
      found == {k \in 1..Len(bc) : bc[k].coinType = assetId /\ bc[k].amount > 0}
  IN IF found = {} THEN Null ELSE bc[First(found)].amount

\* computation + storage, 0 without gasUsed
gasWithoutRebate(dryRunResult) ==
  LET gasUsed == dryRunResult.gasUsed
  IN IF ~gasUsed.declared THEN 0
     ELSE gasUsed.computationCost + gasUsed.storageCost

\* extractGasFromDryRun: computation + storage - rebate, 0 without gasUsed
extractGasFromDryRun(dryRunResult) ==
  LET gasUsed == dryRunResult.gasUsed
  IN IF ~gasUsed.declared THEN 0
     ELSE gasUsed.computationCost + gasUsed.storageCost
          - (IF gasUsed.storageRebate = Undefined THEN 0 ELSE gasUsed.storageRebate)

\* the quotient of the magnitudes
MagnitudeDiv(a, b) == IF a >= 0 THEN a \div b ELSE (-a) \div b

\* the quotient of two BigInts, b > 0: rounded towards zero
BigIntDiv(a, b) == IF a >= 0 THEN a \div b ELSE -((-a) \div b)

\* slippage in percent
slippagePercent(expectedAmount, actualAmount) ==
  BigIntDiv((expectedAmount - actualAmount) * 100, expectedAmount)

\* Number(((expectedAmount - actualAmount) * BigInt(10000)) / expectedAmount)
slippageBps(expectedAmount, actualAmount) ==
  BigIntDiv((expectedAmount - actualAmount) * 10000, expectedAmount)

RECURSIVE Pow10(_)
\* Math.pow(10, decimals)
Pow10(decimals) == IF decimals = 0 THEN 1 ELSE 10 * Pow10(decimals - 1)

\* -------------------------------------------------------- Number arithmetic
\* A Number is an IEEE 754 double: here zero, infinity, or the positive value
\* m * 2^e with a mantissa 2^52 <= m < 2^53, held in two limbs of 27 bits
Limb == 134217728
MinHi == 33554432

Big(hi, lo) == [hi |-> hi, lo |-> lo]
\* a * t for 0 <= t <= 16
Scaled(a, t) == Big(t * a.hi + (t * a.lo) \div Limb, (t * a.lo) % Limb)
Less(a, b) == a.hi < b.hi \/ (a.hi = b.hi /\ a.lo < b.lo)
Minus(a, b) ==
  IF a.lo >= b.lo THEN Big(a.hi - b.hi, a.lo - b.lo)
  ELSE Big(a.hi - b.hi - 1, a.lo + Limb - b.lo)
PlusOne(a) == IF a.lo + 1 = Limb THEN Big(a.hi + 1, 0) ELSE Big(a.hi, a.lo + 1)

ZeroNumber == [kind |-> "zero", m |-> Big(0, 0), e |-> 0]
Infinity   == [kind |-> "inf", m |-> Big(0, 0), e |-> 0]
Finite(m, e) == [kind |-> "finite", m |-> m, e |-> e]

\* the Number of a natural below 2^26: parseFloat of its digits, or the
\* result of Math.pow(10, decimals); both are exact
FromNat(n) ==
  IF n = 0 THEN ZeroNumber
  ELSE LET bits == CHOOSE k \in 1..26 : 2^(k - 1) <= n /\ n < 2^k
       IN Finite(Big(n * 2^(26 - bits), 0), bits - 53)

\* four more bits of the quotient s.q of the remainder s.r by d, s.r < d
DivisionStep(s, d) ==
  LET r == Scaled(s.r, 16)
      digit == CHOOSE t \in 0..15 :
                 ~Less(r, Scaled(d, t)) /\ Less(r, Scaled(d, t + 1))
      q == Scaled(s.q, 16)
  IN [q |-> Big(q.hi, q.lo + digit), r |-> Minus(r, Scaled(d, digit))]

\* the first 1 + 4 * n bits of the quotient of r by d, d <= r < 2 * d, and
\* what remains
LongDivision(r, d, n) ==
  LET steps[k \in 0..n] ==
        IF k = 0 THEN [q |-> Big(0, 1), r |-> Minus(r, d)]
        ELSE DivisionStep(steps[k - 1], d)
  IN steps[n]

\* x / y on Numbers: the quotient rounded to the nearest double, ties to even
Divide(x, y) ==
  IF x.kind = "zero" THEN ZeroNumber
  ELSE IF y.kind = "zero" THEN Infinity
  ELSE
  LET below == Less(x.m, y.m)
      start == IF below THEN Scaled(x.m, 2) ELSE x.m
      e == x.e - y.e - 52 - (IF below THEN 1 ELSE 0)
      d == LongDivision(start, y.m, 13)
      rest == Scaled(d.r, 2)
      half == ~Less(rest, y.m)
      sticky == rest # Big(0, 0) /\ rest # y.m
      up == half /\ (sticky \/ d.q.lo % 2 = 1)
      m == IF up THEN PlusOne(d.q) ELSE d.q
  IN IF m.hi = 2 * MinHi THEN Finite(Big(MinHi, 0), e + 1) ELSE Finite(m, e)

\* x < y on Numbers
LessThan(x, y) ==
  IF x.kind = "inf" \/ y.kind = "zero" THEN FALSE
  ELSE IF x.kind = "zero" \/ y.kind = "inf" THEN TRUE
  ELSE x.e < y.e \/ (x.e = y.e /\ Less(x.m, y.m))

\* calculateExecutionPrice: null, or the price as a Number
NullPrice == [null |-> TRUE, value |-> ZeroNumber]
calculateExecutionPrice(intent, dryRunResult, priceAsset) ==
  IF intent.inputs = <<>> \/ intent.outputs = <<>> THEN NullPrice
  ELSE
  LET inputAsset  == intent.inputs[1]
      outputAsset == intent.outputs[1]
      actualOutput == extractOutputFromDryRun(dryRunResult, outputAsset.assetId)
      normalizedInput ==
        Divide(FromNat(inputAsset.value), FromNat(Pow10(inputAsset.decimals)))
      normalizedOutput ==
        Divide(FromNat(actualOutput), FromNat(Pow10(outputAsset.decimals)))
  IN IF actualOutput = Null THEN NullPrice
     ELSE IF inputAsset.type # "exact" THEN NullPrice
     ELSE IF priceAsset = inputAsset.assetId
          THEN [null |-> FALSE, value |-> Divide(normalizedInput, normalizedOutput)]
     ELSE IF priceAsset = outputAsset.assetId
          THEN [null |-> FALSE, value |-> Divide(normalizedOutput, normalizedInput)]
     ELSE NullPrice

\* validateComplexConstraints: Phase 2, the checks on the dry-run result
validateComplexConstraints(intent, dryRunResult) ==
  LET constraints == intent.constraints
      minOutput(k) ==
        LET minOutput == constraints.minOutputs[k]
            actualOutput == extractOutputFromDryRun(dryRunResult, minOutput.assetId)
        IN IF actualOutput # Null
           THEN IF actualOutput < minOutput.amount
                THEN <<ValidationError("constraints.minOutputs", "error", minOutput.assetId)>>
                ELSE <<>>
           ELSE <<ValidationError("constraints.minOutputs", "error", minOutput.assetId)>>
      minOutputs == Flatten([k \in 1..Len(constraints.minOutputs) |-> minOutput(k)])
      slippage(k) ==
        LET expectedOutput == intent.expectedOutputs[k]
            actualOutput == extractOutputFromDryRun(dryRunResult, expectedOutput.assetId)
        IN IF /\ actualOutput # Null
              /\ expectedOutput.amount # 0
              /\ slippageBps(expectedOutput.amount, actualOutput) > constraints.maxSlippageBps
           THEN <<ValidationError("constraints.maxSlippageBps", "error", expectedOutput.assetId)>>
           ELSE <<>>
      maxSlippage ==
        IF constraints.maxSlippageBps # Undefined
        THEN Flatten([k \in 1..Len(intent.expectedOutputs) |-> slippage(k)])
        ELSE <<>>
      maxGasCost ==
        IF /\ constraints.maxGasCost # Undefined
           /\ extractGasFromDryRun(dryRunResult) > constraints.maxGasCost
        THEN <<ValidationError("constraints.maxGasCost", "error", "")>>
        ELSE <<>>
      limit == constraints.limitPrice
      actualPrice == calculateExecutionPrice(intent, dryRunResult, limit.priceAsset)
      limitPriceNumber == FromNat(limit.price)
      meetsCondition ==
        IF limit.comparison = "gte"
        THEN ~LessThan(actualPrice.value, limitPriceNumber)
        ELSE ~LessThan(limitPriceNumber, actualPrice.value)
      limitPrice ==
        IF ~limit.declared THEN <<>>
        ELSE IF actualPrice.null
             THEN <<ValidationError("constraints.limitPrice", "warning", limit.priceAsset)>>
        ELSE IF ~meetsCondition
             THEN <<ValidationError("constraints.limitPrice", "error", limit.priceAsset)>>
        ELSE <<>>
  IN IF ~constraints.declared THEN ValidationResult(<<>>)
     ELSE ValidationResult(minOutputs \o maxSlippage \o maxGasCost \o limitPrice)

\* ------------------------------------------ constraint validator: inputs
AssetAmounts == [assetId : Assets, amount : Amounts]
AtMostOne(S) == {<<>>} \cup {<<x>> : x \in S}

\* the caps on slippage that intents declare, in basis points
SlippageCaps == {0, 100, 3333, 5000}

Phase1Routings ==
  {NoRouting}
  \cup [declared : {TRUE}, maxHops : {Undefined, 0, 1},
        blacklistProtocols : AtMostOne({"dex"}),
        whitelistProtocols : AtMostOne({"dex"})]

\* intents for Phase 1: no constraints, or a deadline, input caps and routing
Phase1Intents ==
  {PlainIntent}
  \cup {[PlainIntent EXCEPT !.constraints =
           [EmptyConstraints EXCEPT !.deadlineMs = d, !.maxInputs = m, !.routing = r]] :
        d \in Times \cup {Undefined},
        m \in AtMostOne([assetId : {"SUI"}, amount : Amounts]),
        r \in Phase1Routings}

BalanceChange == [coinType : Assets, amount : (-1)..MaxAmount, owner : Owners]
BalanceChangeLists == UNION {[1..n -> BalanceChange] : n \in 0..MaxChanges}

\* intents that declare minimum outputs, with every list of balance changes
MinOutputInputs ==
  [intent : {PlainIntent}
            \cup {[PlainIntent EXCEPT !.constraints =
                     [EmptyConstraints EXCEPT !.minOutputs = m]] :
                  m \in AtMostOne(AssetAmounts)},
   dryRunResult : {[EmptyDryRun EXCEPT !.balanceChanges = b] : b \in BalanceChangeLists}]

\* intents that declare a slippage cap, with every list of balance changes
SlippageInputs ==
  [intent : {[PlainIntent EXCEPT !.expectedOutputs = e, !.constraints =
                [EmptyConstraints EXCEPT !.maxSlippageBps = c]] :
             e \in AtMostOne(AssetAmounts), c \in SlippageCaps},
   dryRunResult : {[EmptyDryRun EXCEPT !.balanceChanges = b] : b \in BalanceChangeLists}]

\* intents that declare a gas cap, with every gasUsed
GasInputs ==
  [intent : {[PlainIntent EXCEPT !.constraints =
                [EmptyConstraints EXCEPT !.maxGasCost = g]] : g \in Amounts},
   dryRunResult : {[EmptyDryRun EXCEPT !.gasUsed = u] :
                   u \in {NoGasUsed}
                         \cup [declared : {TRUE}, computationCost : Amounts,
                               storageCost : Amounts,
                               storageRebate : {Undefined} \cup Amounts]}]

\* intents that declare a limit price, with at most one credit of the output
LimitPriceInputs ==
  [intent : {[PlainIntent EXCEPT !.inputs = i, !.outputs = o, !.constraints =
                [EmptyConstraints EXCEPT !.limitPrice = l]] :
             i \in AtMostOne([assetId : {"SUI"}, type : {"exact", "range"},
                              value : Amounts, decimals : {0, 1}]),
             o \in AtMostOne([assetId : {"USDC"}, decimals : {0, 1}]),
             l \in [declared : {TRUE}, price : Amounts, comparison : {"gte", "lte"},
                    priceAsset : Assets \cup {"OTHER"}]},
   dryRunResult : {[EmptyDryRun EXCEPT !.balanceChanges = b] :
                   b \in AtMostOne([coinType : {"USDC"}, amount : 1..MaxAmount,
                                     owner : {"user"}])}]

ComplexInputs == MinOutputInputs \cup SlippageInputs \cup GasInputs \cup LimitPriceInputs

\* a call of the validator: where it stands, the method, its arguments and
\* what it returned
IdleValidation ==
  [pc |-> "idle", method |-> "", windowEndMs |-> 0, submittedAt |-> 0,
   intent |-> PlainIntent, dryRunResult |-> EmptyDryRun,
   result |-> ValidationResult(<<>>)]

\* the calls of validate and of validateComplexConstraints that are made
PendingValidations ==
  {[IdleValidation EXCEPT !.pc = "called", !.method = "validate",
      !.windowEndMs = w, !.intent = i, !.submittedAt = t] :
   w \in Times, i \in Phase1Intents, t \in Times}
  \cup {[IdleValidation EXCEPT !.pc = "called",
           !.method = "validateComplexConstraints",
           !.intent = c.intent, !.dryRunResult = c.dryRunResult] :
        c \in ComplexInputs}

\* ------------------------------------------------------ feature extraction
\* a field of the dry-run result that should hold a list: absent, something
\* that is not a list, or a list, whose entries may be null
AbsentList    == [kind |-> "absent", items |-> <<>>]
MalformedList == [kind |-> "malformed", items |-> <<>>]
ListOf(items) == [kind |-> "list", items |-> items]

\* field || []
OrEmpty(field) == IF field.kind = "absent" THEN ListOf(<<>>) ELSE field

\* reading a property of every entry throws a TypeError: the field is not a
\* list, or an entry is null
Unreadable(field) ==
  field.kind = "malformed" \/ \E k \in 1..Len(field.items) : field.items[k].null

\* a value that is not numeric, and what Number() makes of it
Malformed == -2
NaN == -999
Number(v) == IF v = Malformed THEN NaN ELSE v
Plus(a, b) == IF a = NaN \/ b = NaN THEN NaN ELSE a + b
Max(a, b) == IF a >= b THEN a ELSE b

\* how a block of statements ends: with a value, or by throwing
Completed(value) == [threw |-> FALSE, value |-> value]
Thrown == [threw |-> TRUE, value |-> 0]
\* try { body } catch (error) { warn; return fallback }
TryCatch(body, fallback) == IF body.threw THEN Completed(fallback) ELSE body

\* a type name as its parts between '::'; <<>> is a type that is no string
NoType == <<>>
\* parts[0] of a type with a package, else null
PackageOf(type) == IF Len(type) >= 2 THEN type[1] ELSE "null"

\* extractGasCost: Number(effects?.gasUsed?.computationCost || 0)
extractGasCost(dryRunResult) ==
  Completed(IF dryRunResult.computationCost = Undefined THEN 0
            ELSE Number(dryRunResult.computationCost))

RECURSIVE TotalFees(_)
\* totalFees over the events: fee || protocol_fee || platformFee, then
\* fee_amount, of each parsedJson
TotalFees(events) ==
  IF events = <<>> THEN 0
  ELSE LET event == Head(events)
           fee == IF event.fee = Undefined THEN 0 ELSE Number(event.fee)
           feeAmount == IF event.feeAmount = Undefined THEN 0
                        ELSE Number(event.feeAmount)
       IN Plus(Plus(fee, feeAmount), TotalFees(Tail(events)))

\* extractProtocolFees
extractProtocolFees(dryRunResult) ==
  LET events == OrEmpty(dryRunResult.events)
  IN TryCatch(IF Unreadable(events) THEN Thrown
              ELSE Completed(TotalFees(events.items)), 0)

\* calculateSurplus: the primary output's credit to the user over its
\* declared minimum; the percentage (surplusAmount / minAmount) * 100 is kept
\* as its operands
ZeroSurplus == [usd |-> 0, percentage |-> [num |-> 0, den |-> 1]]
calculateSurplus(intent, dryRunResult) ==
  LET balanceChanges == OrEmpty(dryRunResult.balanceChanges)
      items == balanceChanges.items
      minOutputs == intent.constraints.minOutputs
      primaryOutput == intent.outputs[1]
      mins == {k \in 1..Len(minOutputs) :
                 minOutputs[k].assetId = primaryOutput.assetId}
      minAmount == minOutputs[First(mins)].amount
      found == {k \in 1..Len(items) :
                  /\ ~items[k].null
                  /\ items[k].coinType = primaryOutput.assetId
                  /\ items[k].owner = intent.userAddress}
      \* find reads the entries up to the first match
      read == IF found = {} THEN 1..Len(items) ELSE 1..First(found)
      amount == Number(items[First(found)].amount)
      actualAmount == IF amount = NaN THEN NaN
                      ELSE IF amount < 0 THEN -amount ELSE amount
      surplusAmount == Plus(actualAmount, -minAmount)
      body ==
        IF intent.outputs = <<>>
           \/ (balanceChanges.kind = "list" /\ items = <<>>)
        THEN Completed(ZeroSurplus)
        ELSE IF minOutputs = <<>> \/ mins = {} THEN Completed(ZeroSurplus)
        ELSE IF balanceChanges.kind = "malformed"
                \/ \E k \in read : items[k].null
             THEN Thrown
        ELSE IF found = {} THEN Completed(ZeroSurplus)
        ELSE Completed([usd |-> surplusAmount,
                        percentage |-> [num |-> IF surplusAmount = NaN THEN NaN
                                                ELSE surplusAmount * 100,
                                        den |-> minAmount]])
  IN TryCatch(body, ZeroSurplus)

\* the statements of extractHopCount inside its try
hopCount(dryRunResult) ==
  LET balanceChanges == OrEmpty(dryRunResult.balanceChanges)
      objectChanges == OrEmpty(dryRunResult.objectChanges)
      uniqueCoinTypes ==
        {balanceChanges.items[k].coinType :
           k \in {j \in 1..Len(balanceChanges.items) :
                    balanceChanges.items[j].coinType # "SUI"}}
      swapOperations ==
        {k \in 1..Len(objectChanges.items) :
           objectChanges.items[k].type \in {"mutated", "created"}}
      hopsByBalance == Max(1, Cardinality(uniqueCoinTypes) - 1)
      hopsByObjects == Max(1, Cardinality(swapOperations) \div 2)
  IN IF Unreadable(balanceChanges) \/ Unreadable(objectChanges) THEN Thrown
     ELSE Completed(Max(hopsByBalance, hopsByObjects))

\* a hop count whose failure reaches the caller
hopCountUncaught(dryRunResult) == hopCount(dryRunResult)

\* extractHopCount
extractHopCount(dryRunResult) == TryCatch(hopCount(dryRunResult), 1)

\* extractProtocolCount
extractProtocolCount(dryRunResult) ==
  LET events == OrEmpty(dryRunResult.events)
      objectChanges == OrEmpty(dryRunResult.objectChanges)
      packageIdsFromEvents ==
        {PackageOf(events.items[k].type) : k \in 1..Len(events.items)}
        \ {"null", "0x2"}
      packageIdsFromObjects ==
        {PackageOf(objectChanges.items[k].objectType) :
           k \in 1..Len(objectChanges.items)}
        \ {"null", "0x2"}
      allPackageIds == packageIdsFromEvents \cup packageIdsFromObjects
  IN TryCatch(IF Unreadable(events) \/ Unreadable(objectChanges) THEN Thrown
              ELSE Completed(Max(1, Cardinality(allPackageIds))), 1)

\* extractFeatures: the feature vector, or the exception of a step that
\* lets one out
NoFeatures ==
  [surplusUsd |-> 0, surplusPercentage |-> [num |-> 0, den |-> 1], gasCost |-> 0,
   protocolFees |-> 0, totalCost |-> 0, totalHops |-> 0, protocolsCount |-> 0,
   estimatedExecutionTime |-> 0]
extractFeatures(intent, dryRunResult) ==
  LET gasCost == extractGasCost(dryRunResult)
      protocolFees == extractProtocolFees(dryRunResult)
      surplus == calculateSurplus(intent, dryRunResult)
      totalHops == extractHopCount(dryRunResult)
      protocolsCount == extractProtocolCount(dryRunResult)
  IN IF gasCost.threw \/ protocolFees.threw \/ surplus.threw
        \/ totalHops.threw \/ protocolsCount.threw
     THEN [threw |-> TRUE, value |-> NoFeatures]
     ELSE Completed([surplusUsd |-> surplus.value.usd,
                     surplusPercentage |-> surplus.value.percentage,
                     gasCost |-> gasCost.value,
                     protocolFees |-> protocolFees.value,
                     totalCost |-> Plus(gasCost.value, protocolFees.value),
                     totalHops |-> totalHops.value,
                     protocolsCount |-> protocolsCount.value,
                     estimatedExecutionTime |-> 2000])

\* ---------------------------------------------- feature extraction: inputs
NullEvent == [null |-> TRUE, type |-> NoType, fee |-> Undefined, feeAmount |-> Undefined]
FeatureEvents ==
  {NullEvent,
   [null |-> FALSE, type |-> NoType, fee |-> Undefined, feeAmount |-> Undefined],
   [null |-> FALSE, type |-> <<"0xdex", "pool", "SwapEvent">>, fee |-> 1,
    feeAmount |-> 1],
   [null |-> FALSE, type |-> <<"0x2", "coin", "CoinEvent">>, fee |-> Malformed,
    feeAmount |-> Undefined]}

NullBalanceChange == [null |-> TRUE, coinType |-> "", amount |-> 0, owner |-> ""]
FeatureBalanceChanges ==
  {NullBalanceChange,
   [null |-> FALSE, coinType |-> "USDC", amount |-> 2, owner |-> "user"],
   [null |-> FALSE, coinType |-> "SUI", amount |-> Malformed, owner |-> "solver"]}

NullObjectChange == [null |-> TRUE, type |-> "", objectType |-> NoType]
FeatureObjectChanges ==
  {NullObjectChange,
   [null |-> FALSE, type |-> "mutated", objectType |-> <<"0xdex", "pool", "Pool">>],
   [null |-> FALSE, type |-> "deleted", objectType |-> NoType]}

\* a list field over the entries S
ListFields(S) ==
  {AbsentList, MalformedList}
  \cup {ListOf(items) : items \in UNION {[1..n -> S] : n \in 0..MaxEntries}}

\* the dry-run results the features are extracted from
FeatureDryRuns ==
  [events : ListFields(FeatureEvents),
   balanceChanges : ListFields(FeatureBalanceChanges),
   objectChanges : ListFields(FeatureObjectChanges),
   computationCost : {Undefined, Malformed, 1}]

\* intents without and with a minimum for the primary output
FeatureIntents ==
  {PlainIntent,
   [PlainIntent EXCEPT !.constraints =
      [EmptyConstraints EXCEPT !.minOutputs = <<[assetId |-> "USDC", amount |-> 1]>>]]}

\* processSingleSolution from line 90 on: where it stands, its arguments,
\* the features extracted and what it returned
IdleExtraction ==
  [pc |-> "idle", intent |-> PlainIntent,
   dryRunResult |-> [events |-> AbsentList, balanceChanges |-> AbsentList,
                     objectChanges |-> AbsentList, computationCost |-> Undefined],
   features |-> NoFeatures, result |-> NoResult]

\* the calls that have passed both validations and reach extractFeatures
PendingExtractions ==
  {[IdleExtraction EXCEPT !.pc = "extractFeatures", !.intent = i, !.dryRunResult = d] :
   i \in FeatureIntents, d \in FeatureDryRuns}

\* --------------------------------------------------------- event listener
\* the fields isListening and pollingInterval (0 = null) of a new SuiService,
\* the timers of the process that have been set and not cleared, and history:
\* a start call has returned at its guard, a stop call has been made, a start
\* call after a stop has set a timer
NotStarted ==
  [isListening |-> FALSE, pollingInterval |-> 0, active |-> {},
   ignored |-> FALSE, stopped |-> FALSE, restarted |-> FALSE]

\* the handle setInterval returns: a timer that is not live yet
NewTimer(active) ==
  CHOOSE h \in 1..(Cardinality(active) + 1) : h \notin active

\* startEventListener past its guard: isListening = true and
\* pollingInterval = setInterval(...)
startInterval(l) ==
  LET h == NewTimer(l.active)
  IN  [l EXCEPT !.isListening = TRUE, !.pollingInterval = h,
                !.active = @ \cup {h}, !.restarted = @ \/ l.stopped]

\* startEventListener without the check of isListening
startAnyway(l) ==
  startInterval(l)
\* startEventListener()
startEventListener(l) ==
  IF l.isListening THEN [l EXCEPT !.ignored = TRUE] ELSE startInterval(l)

\* stopEventListener()
stopEventListener(l) ==
  [l EXCEPT !.active = IF l.pollingInterval # 0
                         THEN @ \ {l.pollingInterval} ELSE @,
            !.pollingInterval = 0, !.isListening = FALSE, !.stopped = TRUE]

\* onModuleInit of a new process with autoStartEventListener left on: the
\* fields start from their initialisers and the listener is started
onModuleInit(l) ==
  startEventListener([l EXCEPT !.isListening = FALSE, !.pollingInterval = 0,
                               !.active = {}])

AutoStarted == onModuleInit(NotStarted)

\* the state after construction, but for the validator and extraction calls
Constructed ==
  /\ chain = <<>>
  /\ eventCursor = 0
  /\ storedCursor = 0
  /\ ticks = [t \in TickIds |-> IdleTick]
  /\ handlers = {}
  /\ contexts = [c \in CtxIds |-> NoContext]
  /\ activeIntents = [i \in Intents |-> 0]
  /\ timers = [i \in Intents |-> 0]
  /\ flushes = {}
  /\ intentKey = {}
  /\ solutionKey = {}
  /\ failedKey = {}
  /\ passedSet = [i \in Intents |-> {}]
  /\ failedSet = [i \in Intents |-> {}]
  /\ rankingQueue = <<>>
  /\ redisQ = <<>>
  /\ handedBy = <<>>
  /\ droppedOpening = {}
  /\ terminated = {}
  /\ delivered = {}
  /\ fetched = {}
  /\ lost = {}
  /\ pipeline = IdlePipeline
  /\ listener = AutoStarted
  /\ nHand = 0
  /\ nManual = 0
  /\ nCrash = 0

Init == Constructed /\ validation = IdleValidation /\ extraction = IdleExtraction

\* a validator call has been made
InitValidator ==
  Constructed /\ validation \in PendingValidations /\ extraction = IdleExtraction

\* a call of processSingleSolution has passed Phase 2
InitFeatures ==
  Constructed /\ validation = IdleValidation /\ extraction \in PendingExtractions

\* a transaction on chain emits an event
ChainEmit(e) ==
  /\ Len(chain) < MaxChain
  /\ chain' = Append(chain, e)
  /\ handedBy' = Append(handedBy, 0)
  /\ UNCHANGED redisQ
  /\ UNCHANGED <<ingestVars, handlers, coordVars, storeVars, rankingQueue,
                 droppedOpening, terminated, delivered, fetched, lost,
                 nHand, nManual, nCrash>>
  /\ UNCHANGED <<pipeline, validation, extraction, listener>>

\* ------------------------------------------------------- event ingestion
\* the setInterval callback fires and pollEvents issues the intent query with
\* the in-memory cursor; a tick may start while an earlier one is suspended
TickStart(t) ==
  /\ listener.active # {}
  /\ ticks[t].pc = "idle"
  /\ ticks' = [ticks EXCEPT ![t] = [IdleTick EXCEPT !.pc = "q1", !.arg = eventCursor]]
  /\ UNCHANGED redisQ
  /\ UNCHANGED <<chain, eventCursor, storedCursor, handlers, coordVars,
                 storeVars, rankingQueue, histVars, nHand, nManual, nCrash>>
  /\ UNCHANGED <<pipeline, validation, extraction, listener>>

\* the intent query returns; the solution query is issued with the cursor
\* as it is in memory now
IntentQueryReturn(t) ==
  /\ ticks[t].pc = "q1"
  /\ ticks' = [ticks EXCEPT ![t] =
                 [pc |-> "q2", arg |-> eventCursor, handed |-> <<>>,
                  intentEvents |-> queryEvents("intent", ticks[t].arg, QueryLimit)]]
  /\ UNCHANGED redisQ
  /\ UNCHANGED <<chain, eventCursor, storedCursor, handlers, coordVars,
                 storeVars, rankingQueue, histVars, nHand, nManual, nCrash>>
  /\ UNCHANGED <<pipeline, validation, extraction, listener>>

\* a query rejects: pollEvents throws and the interval callback logs it
QueryFail(t) ==
  /\ ticks[t].pc \in {"q1", "q2"}
  /\ ticks' = [ticks EXCEPT ![t] = IdleTick]
  /\ UNCHANGED redisQ
  /\ UNCHANGED <<chain, eventCursor, storedCursor, handlers, coordVars,
                 storeVars, rankingQueue, histVars, nHand, nManual, nCrash>>
  /\ UNCHANGED <<pipeline, validation, extraction, listener>>

\* handler started by emit('intent.submitted'): runs up to the blob fetch;
\* `known` is history: whether the map held a context for the id at the emit
IntentHandler(id, p) ==
  [id |-> id, kind |-> "intent", pos |-> p, intentId |-> chain[p].intentId,
   solutionId |-> 0, ctx |-> 0, pc |-> "fetch", passed |-> FALSE,
   known |-> activeIntents[chain[p].intentId] # 0]

\* handler started by emit('solution.submitted'): has looked up its context
\* and runs up to the blob fetch
SolutionHandler(id, p) ==
  [id |-> id, kind |-> "solution", pos |-> p, intentId |-> chain[p].intentId,
   solutionId |-> chain[p].solutionId, ctx |-> activeIntents[chain[p].intentId],
   pc |-> "fetch", passed |-> FALSE]

\* a lookup that would find a context for any intent id
AnyContext(intentId) == TRUE

\* const context = this.activeIntents.get(event.intentId); if (!context) return
HasContext(intentId) == activeIntents[intentId] # 0

\* a loop order that would emit the solution events first
HandoffSolutionsFirst(intentEvents, solutionEvents) == solutionEvents \o intentEvents

\* the order in which one tick hands its events to the coordinator: the loop
\* over the intent events, then the loop over the solution events
HandoffOrder(intentEvents, solutionEvents) == intentEvents \o solutionEvents

\* the event whose id becomes the cursor
LastEvent(allEvents) == allEvents[Len(allEvents)]

\* the solution query returns; every intent event and then every solution
\* event is emitted, the in-memory cursor is set and the cursor store issued
SolutionQueryReturn(t) ==
  LET ie  == ticks[t].intentEvents
      se  == queryEvents("solution", ticks[t].arg, QueryLimit)
      all == HandoffOrder(ie, se)
      ids == FirstFree(HandlerIds \ {h.id : h \in handlers}, Len(all))
      known(k)   == HasContext(chain[se[k]].intentId)
      opening(k) == \/ \E h \in handlers : h.kind = "intent"
                                           /\ h.intentId = chain[se[k]].intentId
                    \/ \E j \in 1..Len(ie) : chain[ie[j]].intentId = chain[se[k]].intentId
  IN
  /\ ticks[t].pc = "q2"
  /\ nHand + Len(all) <= MaxHandoffs
  /\ handlers' = handlers
       \cup {IntentHandler(ids[k], ie[k]) : k \in 1..Len(ie)}
       \cup {SolutionHandler(ids[Len(ie) + k], se[k]) : k \in {j \in 1..Len(se) : known(j)}}
  /\ nHand' = nHand + Len(all)
  /\ handedBy' = [p \in 1..Len(chain) |->
                    IF \E k \in 1..Len(all) : all[k] = p
                    THEN Min(2, handedBy[p] + 1) ELSE handedBy[p]]
  /\ droppedOpening' = droppedOpening
       \cup {se[k] : k \in {j \in 1..Len(se) : ~known(j) /\ opening(j)}}
  /\ IF Len(all) > 0
     THEN /\ eventCursor' = LastEvent(all)
          /\ ticks' = [ticks EXCEPT ![t] = [IdleTick EXCEPT !.pc = "store",
                                                           !.handed = all]]
          /\ redisQ' = Append(redisQ, <<"t", t>>)
     ELSE /\ eventCursor' = eventCursor
          /\ ticks' = [ticks EXCEPT ![t] = IdleTick]
          /\ redisQ' = redisQ
  /\ UNCHANGED <<chain, storedCursor, coordVars, storeVars, rankingQueue,
                 terminated, delivered, fetched, lost, nManual, nCrash>>
  /\ UNCHANGED <<pipeline, validation, extraction, listener>>

\* redisService.storeEventCursor: SET sui:event:cursor
StoreCursorDone(t) ==
  /\ ticks[t].pc = "store"
  /\ Served("t", t)
  /\ storedCursor' = LastEvent(ticks[t].handed)
  /\ ticks' = [ticks EXCEPT ![t] = IdleTick]
  /\ redisQ' = Tail(redisQ)
  /\ UNCHANGED <<chain, eventCursor, handlers, coordVars, storeVars,
                 rankingQueue, histVars, nHand, nManual, nCrash>>
  /\ UNCHANGED <<pipeline, validation, extraction, listener>>

\* the SET rejects: pollEvents throws and the interval callback logs it
StoreCursorFail(t) ==
  /\ ticks[t].pc = "store"
  /\ Served("t", t)
  /\ ticks' = [ticks EXCEPT ![t] = IdleTick]
  /\ redisQ' = Tail(redisQ)
  /\ UNCHANGED <<chain, eventCursor, storedCursor, handlers, coordVars,
                 storeVars, rankingQueue, histVars, nHand, nManual, nCrash>>
  /\ UNCHANGED <<pipeline, validation, extraction, listener>>

\* ------------------------------------------- coordinator: intent handling
\* walrusService.fetchIntentHttp resolves; storeIntent issues its SET
IntentFetched(n) ==
  \E h \in handlers :
  /\ h.id = n /\ h.kind = "intent" /\ h.pc = "fetch"
  /\ handlers' = (handlers \ {h}) \cup {[h EXCEPT !.pc = "store"]}
  /\ redisQ' = Append(redisQ, <<"h", h.id>>)
  /\ UNCHANGED <<chain, ingestVars, coordVars, storeVars, rankingQueue,
                 histVars, nHand, nManual, nCrash>>
  /\ UNCHANGED <<pipeline, validation, extraction, listener>>

\* a catch block that logs the rejection and still schedules a window close
IntentFetchFailScheduled(n) ==
  \E h \in handlers :
  /\ h.id = n /\ h.kind = "intent" /\ h.pc = "fetch"
  /\ handlers' = handlers \ {h}
  /\ timers' = [timers EXCEPT ![h.intentId] = @ + 1]
  /\ UNCHANGED redisQ
  /\ UNCHANGED <<chain, ingestVars, contexts, activeIntents, flushes, storeVars,
                 rankingQueue, histVars, nHand, nManual, nCrash>>
  /\ UNCHANGED <<pipeline, validation, extraction, listener>>

\* the fetch rejects: the catch block logs and the handler ends
IntentFetchFail(n) ==
  \E h \in handlers :
  /\ h.id = n /\ h.kind = "intent" /\ h.pc = "fetch"
  /\ handlers' = handlers \ {h}
  /\ UNCHANGED redisQ
  /\ UNCHANGED <<chain, ingestVars, coordVars, storeVars, rankingQueue,
                 histVars, nHand, nManual, nCrash>>
  /\ UNCHANGED <<pipeline, validation, extraction, listener>>

\* a context as handleIntentSubmitted constructs it
NewContext(i) == [intentId |-> i, passedSolutionCount |-> 0]

\* the SET of intent:<i> is done; a fresh context replaces whatever the map
\* holds for the id and a window-close timeout is scheduled
IntentStored(n) ==
  \E h \in handlers :
  /\ h.id = n /\ h.kind = "intent" /\ h.pc = "store"
  /\ Served("h", h.id)
  /\ intentKey' = intentKey \cup {h.intentId}
  /\ handlers' = handlers \ {h}
  /\ LET c == CHOOSE x \in CtxIds :
                 /\ contexts[x] = NoContext
                 /\ \A y \in CtxIds : contexts[y] = NoContext => x <= y
     IN /\ activeIntents' = [activeIntents EXCEPT ![h.intentId] = c]
        /\ contexts' = Collect([contexts EXCEPT ![c] = NewContext(h.intentId)],
                               activeIntents', handlers')
  /\ timers' = [timers EXCEPT ![h.intentId] = @ + 1]
  /\ delivered' = delivered \cup {h.pos}
  /\ redisQ' = Tail(redisQ)
  /\ UNCHANGED <<chain, ingestVars, flushes, solutionKey, failedKey, passedSet,
                 failedSet, rankingQueue, handedBy, droppedOpening,
                 terminated, fetched, lost, nHand, nManual, nCrash>>
  /\ UNCHANGED <<pipeline, validation, extraction, listener>>

\* ----------------------------------------- coordinator: solution handling
\* walrusService.fetchSolution resolves; processSingleSolution is called
SolutionFetched(n) ==
  \E h \in handlers :
  /\ h.id = n /\ h.kind = "solution" /\ h.pc = "fetch"
  /\ handlers' = (handlers \ {h}) \cup {[h EXCEPT !.pc = "prerank"]}
  /\ fetched' = fetched \cup {h.pos}
  /\ UNCHANGED redisQ
  /\ UNCHANGED <<chain, ingestVars, coordVars, storeVars, rankingQueue,
                 handedBy, droppedOpening, terminated, delivered, lost, nHand, nManual, nCrash>>
  /\ UNCHANGED <<pipeline, validation, extraction, listener>>

\* the fetch rejects: the catch block logs and the handler ends
SolutionFetchFail(n) ==
  \E h \in handlers :
  /\ h.id = n /\ h.kind = "solution" /\ h.pc = "fetch"
  /\ handlers' = handlers \ {h}
  /\ contexts' = Collect(contexts, activeIntents, handlers')
  /\ UNCHANGED redisQ
  /\ UNCHANGED <<chain, ingestVars, activeIntents, timers, flushes, storeVars, rankingQueue,
                 histVars, nHand, nManual, nCrash>>
  /\ UNCHANGED <<pipeline, validation, extraction, listener>>

\* processSingleSolution returns; its verdict depends on the dry run of the
\* moment.  The SET of the pass or fail record is issued
SolutionPreranked(n, passed) ==
  \E h \in handlers :
  /\ h.id = n /\ h.kind = "solution" /\ h.pc = "prerank"
  /\ handlers' = (handlers \ {h}) \cup {[h EXCEPT !.pc = "set", !.passed = passed]}
  /\ redisQ' = Append(redisQ, <<"h", h.id>>)
  /\ UNCHANGED <<chain, ingestVars, coordVars, storeVars, rankingQueue,
                 histVars, nHand, nManual, nCrash>>
  /\ UNCHANGED <<pipeline, validation, extraction, listener>>

\* storeSolutionResult / storeFailedSolution: the record key is SET
SolutionRecordSet(n) ==
  \E h \in handlers :
  /\ h.id = n /\ h.kind = "solution" /\ h.pc = "set"
  /\ Served("h", h.id)
  /\ IF h.passed
     THEN /\ solutionKey' = solutionKey \cup {<<h.intentId, h.solutionId>>}
          /\ failedKey' = failedKey
     ELSE /\ failedKey' = failedKey \cup {<<h.intentId, h.solutionId>>}
          /\ solutionKey' = solutionKey
  /\ handlers' = (handlers \ {h}) \cup {[h EXCEPT !.pc = "sadd"]}
  /\ redisQ' = Append(Tail(redisQ), <<"h", h.id>>)
  /\ UNCHANGED <<chain, ingestVars, coordVars, intentKey, passedSet, failedSet,
                 rankingQueue, histVars, nHand, nManual, nCrash>>
  /\ UNCHANGED <<pipeline, validation, extraction, listener>>

\* the counter update that follows a stored pass record
CountPassed(ctxs, c) == [ctxs EXCEPT ![c].passedSolutionCount = @ + 1]

\* the SADD is done; on a pass the context the handler looked up is counted up
SolutionSetAdded(n) ==
  \E h \in handlers :
  /\ h.id = n /\ h.kind = "solution" /\ h.pc = "sadd"
  /\ Served("h", h.id)
  /\ handlers' = handlers \ {h}
  /\ IF h.passed
     THEN /\ passedSet' = [passedSet EXCEPT ![h.intentId] = @ \cup {h.solutionId}]
          /\ contexts' = Collect(CountPassed(contexts, h.ctx), activeIntents, handlers')
          /\ failedSet' = failedSet
     ELSE /\ failedSet' = [failedSet EXCEPT ![h.intentId] = @ \cup {h.solutionId}]
          /\ contexts' = Collect(contexts, activeIntents, handlers')
          /\ passedSet' = passedSet
  /\ delivered' = delivered \cup {h.pos}
  /\ redisQ' = Tail(redisQ)
  /\ UNCHANGED <<chain, ingestVars, activeIntents, timers, flushes, intentKey,
                 solutionKey, failedKey, rankingQueue, handedBy,
                 droppedOpening, terminated, fetched, lost, nHand, nManual, nCrash>>
  /\ UNCHANGED <<pipeline, validation, extraction, listener>>

\* -------------------------------------------------- coordinator: flushing
\* the id a flush that starts now is known by
FreeFlushId == FirstFree(FlushIds \ {f.id : f \in flushes}, 1)[1]

\* sendToRankingService up to its first Redis call: nothing without a
\* context, the delete path for a zero counter, the publish path otherwise
sendToRankingService(i) ==
  IF activeIntents[i] = 0
  THEN flushes
  ELSE flushes \cup
       {[id |-> FreeFlushId, intentId |-> i,
         pc |-> IF contexts[activeIntents[i]].passedSolutionCount = 0
                THEN "delPassedIds" ELSE "smembers",
         passedIds |-> {}, failedIds |-> {}, passedSolutions |-> {},
         failedCount |-> 0]}

\* a window-close timeout fires
TimerFire(i) ==
  /\ timers[i] > 0
  /\ timers' = [timers EXCEPT ![i] = @ - 1]
  /\ flushes' = sendToRankingService(i)
  /\ redisQ' = IF activeIntents[i] = 0 THEN redisQ
               ELSE Append(redisQ, <<"f", FreeFlushId>>)
  /\ UNCHANGED <<chain, ingestVars, handlers, contexts, activeIntents, storeVars,
                 rankingQueue, histVars, nHand, nManual, nCrash>>
  /\ UNCHANGED <<pipeline, validation, extraction, listener>>

\* triggerSendToRanking(intentId)
TriggerSendToRanking(i) ==
  /\ nManual < MaxManual
  /\ nManual' = nManual + 1
  /\ flushes' = sendToRankingService(i)
  /\ redisQ' = IF activeIntents[i] = 0 THEN redisQ
               ELSE Append(redisQ, <<"f", FreeFlushId>>)
  /\ UNCHANGED <<chain, ingestVars, handlers, contexts, activeIntents, timers,
                 storeVars, rankingQueue, histVars, nHand, nCrash>>
  /\ UNCHANGED <<pipeline, validation, extraction, listener>>

\* getPassedSolutions: SMEMBERS solution:<i>:passed
FlushSmembers(n) ==
  \E f \in flushes :
  /\ f.id = n /\ f.pc = "smembers"
  /\ Served("f", f.id)
  /\ flushes' = (flushes \ {f})
       \cup {[f EXCEPT !.pc = "gets", !.passedIds = passedSet[f.intentId]]}
  /\ redisQ' = Append(Tail(redisQ), <<"f", f.id>>)
  /\ UNCHANGED <<chain, ingestVars, handlers, contexts, activeIntents, timers,
                 storeVars, rankingQueue, histVars, nHand, nManual, nCrash>>
  /\ UNCHANGED <<pipeline, validation, extraction, listener>>

\* getPassedSolutions: GET of every member's record, absent records filtered
FlushGets(n) ==
  \E f \in flushes :
  /\ f.id = n /\ f.pc = "gets"
  /\ Served("f", f.id)
  /\ flushes' = (flushes \ {f})
       \cup {[f EXCEPT !.pc = "scard",
                       !.passedSolutions =
                          {s \in f.passedIds : <<f.intentId, s>> \in solutionKey}]}
  /\ redisQ' = Append(Tail(redisQ), <<"f", f.id>>)
  /\ UNCHANGED <<chain, ingestVars, handlers, contexts, activeIntents, timers,
                 storeVars, rankingQueue, histVars, nHand, nManual, nCrash>>
  /\ UNCHANGED <<pipeline, validation, extraction, listener>>

\* getFailedSolutionCount: SCARD failed:<i>:set
FlushScard(n) ==
  \E f \in flushes :
  /\ f.id = n /\ f.pc = "scard"
  /\ Served("f", f.id)
  /\ flushes' = (flushes \ {f})
       \cup {[f EXCEPT !.pc = "lpush",
                       !.failedCount = Cardinality(failedSet[f.intentId])]}
  /\ redisQ' = Append(Tail(redisQ), <<"f", f.id>>)
  /\ UNCHANGED <<chain, ingestVars, handlers, contexts, activeIntents, timers,
                 storeVars, rankingQueue, histVars, nHand, nManual, nCrash>>
  /\ UNCHANGED <<pipeline, validation, extraction, listener>>

\* the payload handed to redisService.sendToRankingService
Payload(f) ==
  [intentId |-> f.intentId, passedSolutions |-> f.passedSolutions,
   totalSolutionsSubmitted |-> Cardinality(f.passedSolutions) + f.failedCount]

\* LPUSH ranking:queue is done; the map entry of the id is deleted
FlushLpush(n) ==
  \E f \in flushes :
  /\ f.id = n /\ f.pc = "lpush"
  /\ Served("f", f.id)
  /\ rankingQueue' = Append(rankingQueue, Payload(f))
  /\ activeIntents' = [activeIntents EXCEPT ![f.intentId] = 0]
  /\ contexts' = Collect(contexts, activeIntents', handlers)
  /\ terminated' = terminated \cup {f.intentId}
  /\ flushes' = flushes \ {f}
  /\ redisQ' = Tail(redisQ)
  /\ UNCHANGED <<chain, ingestVars, handlers, timers, storeVars,
                 handedBy, droppedOpening, delivered, fetched, lost,
                 nHand, nManual, nCrash>>
  /\ UNCHANGED <<pipeline, validation, extraction, listener>>

\* deleteIntentData: SMEMBERS solution:<i>:passed
FlushDelReadPassed(n) ==
  \E f \in flushes :
  /\ f.id = n /\ f.pc = "delPassedIds"
  /\ Served("f", f.id)
  /\ flushes' = (flushes \ {f})
       \cup {[f EXCEPT !.pc = "delFailedIds", !.passedIds = passedSet[f.intentId]]}
  /\ redisQ' = Append(Tail(redisQ), <<"f", f.id>>)
  /\ UNCHANGED <<chain, ingestVars, handlers, contexts, activeIntents, timers,
                 storeVars, rankingQueue, histVars, nHand, nManual, nCrash>>
  /\ UNCHANGED <<pipeline, validation, extraction, listener>>

\* deleteIntentData: SMEMBERS failed:<i>:set
FlushDelReadFailed(n) ==
  \E f \in flushes :
  /\ f.id = n /\ f.pc = "delFailedIds"
  /\ Served("f", f.id)
  /\ flushes' = (flushes \ {f})
       \cup {[f EXCEPT !.pc = "del", !.failedIds = failedSet[f.intentId]]}
  /\ redisQ' = Append(Tail(redisQ), <<"f", f.id>>)
  /\ UNCHANGED <<chain, ingestVars, handlers, contexts, activeIntents, timers,
                 storeVars, rankingQueue, histVars, nHand, nManual, nCrash>>
  /\ UNCHANGED <<pipeline, validation, extraction, listener>>

\* deleteIntentData: DEL of the intent key, both sets and the records of the
\* ids read before; then the map entry of the id is deleted
FlushDel(n) ==
  \E f \in flushes :
  /\ f.id = n /\ f.pc = "del"
  /\ Served("f", f.id)
  /\ intentKey' = intentKey \ {f.intentId}
  /\ passedSet' = [passedSet EXCEPT ![f.intentId] = {}]
  /\ failedSet' = [failedSet EXCEPT ![f.intentId] = {}]
  /\ solutionKey' = solutionKey \ {<<f.intentId, s>> : s \in f.passedIds}
  /\ failedKey' = failedKey \ {<<f.intentId, s>> : s \in f.failedIds}
  /\ activeIntents' = [activeIntents EXCEPT ![f.intentId] = 0]
  /\ contexts' = Collect(contexts, activeIntents', handlers)
  /\ terminated' = terminated \cup {f.intentId}
  /\ flushes' = flushes \ {f}
  /\ redisQ' = Tail(redisQ)
  /\ UNCHANGED <<chain, ingestVars, handlers, timers, rankingQueue,
                 handedBy, droppedOpening, delivered, fetched, lost,
                 nHand, nManual, nCrash>>
  /\ UNCHANGED <<pipeline, validation, extraction, listener>>

\* a catch block that logs the rejection and leaves the map as it is
FlushFailLogged(n) ==
  \E f \in flushes :
  /\ f.id = n
  /\ Served("f", f.id)
  /\ lost' = IF f.pc = "lpush" THEN lost \cup {f.intentId} ELSE lost
  /\ flushes' = flushes \ {f}
  /\ redisQ' = Tail(redisQ)
  /\ UNCHANGED <<chain, ingestVars, handlers, contexts, activeIntents, timers,
                 storeVars, rankingQueue, handedBy, droppedOpening, terminated,
                 delivered, fetched, nHand, nManual, nCrash>>
  /\ UNCHANGED <<pipeline, validation, extraction, listener>>

\* a Redis call of a flush rejects: the catch block logs and deletes the map
\* entry of the id
FlushFail(n) ==
  \E f \in flushes :
  /\ f.id = n
  /\ Served("f", f.id)
  /\ activeIntents' = [activeIntents EXCEPT ![f.intentId] = 0]
  /\ contexts' = Collect(contexts, activeIntents', handlers)
  /\ terminated' = terminated \cup {f.intentId}
  /\ lost' = IF f.pc = "lpush" THEN lost \cup {f.intentId} ELSE lost
  /\ flushes' = flushes \ {f}
  /\ redisQ' = Tail(redisQ)
  /\ UNCHANGED <<chain, ingestVars, handlers, timers, storeVars, rankingQueue,
                 handedBy, droppedOpening, delivered, fetched,
                 nHand, nManual, nCrash>>
  /\ UNCHANGED <<pipeline, validation, extraction, listener>>

\* ------------------------------------------------------------- restart
\* the process dies and starts again: memory is lost, Redis is kept, and
\* onModuleInit seeds the in-memory cursor from the stored one
Restart ==
  /\ nCrash < MaxCrashes
  /\ nCrash' = nCrash + 1
  /\ eventCursor' = storedCursor
  /\ ticks' = [t \in TickIds |-> IdleTick]
  /\ handlers' = {}
  /\ contexts' = [c \in CtxIds |-> NoContext]
  /\ activeIntents' = [i \in Intents |-> 0]
  /\ timers' = [i \in Intents |-> 0]
  /\ flushes' = {}
  /\ redisQ' = <<>>
  /\ listener' = onModuleInit(listener)
  /\ UNCHANGED <<chain, storedCursor, storeVars, rankingQueue, histVars,
                 nHand, nManual>>
  /\ UNCHANGED <<pipeline, validation, extraction>>

\* ------------------------------------------- pre-ranking pipeline: steps
\* message of an Error a collaborator rejects with
ErrorMessage == "Validation service unavailable"

\* a return statement of processSingleSolution with passed: false
Failed(failureReason, errors) ==
  [passed |-> FALSE, failureReason |-> failureReason, errors |-> errors,
   features |-> FALSE, thrown |-> FALSE]

\* the return statement with passed: true, features and dryRunResult
Passed == [passed |-> TRUE, failureReason |-> "", errors |-> <<>>,
           features |-> TRUE, thrown |-> FALSE]

\* a catch block that would let the exception through to the caller
Rethrown(message) ==
  [passed |-> FALSE, failureReason |-> "", errors |-> <<>>,
   features |-> FALSE, thrown |-> TRUE]

\* the catch block: log and return a failed result with the message
Caught(message) == Failed("Processing error", <<message>>)

\* a test that would let an invalid solution through to the dry run
ValidationIgnored(validationResult) == FALSE

\* if (!validationResult.isValid)
ValidationFailed(validationResult) == ~validationResult.isValid

\* a test that would let a failed dry run through to Phase 2
DryRunIgnored(dryRunResult) == FALSE

\* if (dryRunResult.effects?.status?.status !== 'success')
DryRunFailed(dryRunResult) == dryRunResult.status # "success"

\* a test that would pass a solution whatever Phase 2 says
ComplexValidationIgnored(complexValidationResult) == FALSE

\* if (!complexValidationResult.isValid)
ComplexValidationFailed(complexValidationResult) == ~complexValidationResult.isValid

\* dryRunResult.effects?.status?.error || 'Unknown error'
DryRunError(dryRunResult) ==
  IF dryRunResult.error = "" THEN "Unknown error" ELSE dryRunResult.error

\* the pipeline returns r to its caller
Return(r) == [pipeline EXCEPT !.pc = "done", !.result = r]

\* the pipeline awaits the collaborator `name`
Await(name) == [pipeline EXCEPT !.pc = name, !.calls = Append(@, name)]

allButPipeline == <<chain, ingestVars, handlers, coordVars, storeVars,
                    rankingQueue, redisQ, histVars, nHand, nManual, nCrash,
                    validation, extraction, listener>>

\* processSingleSolution is called and awaits constraintValidator.validate
PipelineCall ==
  /\ pipeline.pc \in {"idle", "done"}
  /\ pipeline' = [IdlePipeline EXCEPT !.pc = "validate", !.calls = <<"validate">>]
  /\ UNCHANGED allButPipeline

\* validate settles: caught, failed, or on to the dry run
PipelineValidated(r) ==
  /\ pipeline.pc = "validate"
  /\ pipeline' =
       [(IF r.threw THEN Return(Caught(ErrorMessage))
         ELSE IF ValidationFailed(r)
              THEN Return(Failed("Constraint validation failed", r.errors))
              ELSE Await("dryRun"))
        EXCEPT !.validationResult = r]
  /\ UNCHANGED allButPipeline

\* dryRunTransactionBlock settles: caught, failed, or on to Phase 2
PipelineDryRun(d) ==
  /\ pipeline.pc = "dryRun"
  /\ pipeline' =
       [(IF d.threw THEN Return(Caught(ErrorMessage))
         ELSE IF DryRunFailed(d)
              THEN Return(Failed("Dry run failed", <<DryRunError(d)>>))
              ELSE Await("validateComplexConstraints"))
        EXCEPT !.dryRunResult = d]
  /\ UNCHANGED allButPipeline

\* validateComplexConstraints settles: caught, failed, or the features are
\* extracted and the solution has passed
PipelineComplexValidated(r) ==
  /\ pipeline.pc = "validateComplexConstraints"
  /\ pipeline' =
       [(IF r.threw THEN Return(Caught(ErrorMessage))
         ELSE IF ComplexValidationFailed(r)
              THEN Return(Failed("Complex validation failed", r.errors))
              ELSE [Return(Passed) EXCEPT !.calls = Append(@, "extractFeatures")])
        EXCEPT !.complexValidationResult = r]
  /\ UNCHANGED allButPipeline

NextPipeline ==
  \/ PipelineCall
  \/ \E r \in ValidationOutcomes : PipelineValidated(r)
  \/ \E d \in DryRunOutcomes : PipelineDryRun(d)
  \/ \E r \in ValidationOutcomes : PipelineComplexValidated(r)

\* calls of processSingleSolution on their own
SpecPipeline == Init /\ [][NextPipeline]_vars

\* ------------------------------------------- constraint validator: calls
allButValidation == <<chain, ingestVars, handlers, coordVars, storeVars,
                      rankingQueue, redisQ, histVars, nHand, nManual, nCrash,
                      pipeline, extraction, listener>>

\* constraintValidator.validate(windowEndMs, intent, solution, submittedSolution)
\* returns
ValidateReturns ==
  /\ validation.pc = "called" /\ validation.method = "validate"
  /\ validation' = [validation EXCEPT
                      !.pc = "returned",
                      !.result = validate(validation.windowEndMs, validation.intent,
                                          validation.submittedAt)]
  /\ UNCHANGED allButValidation

\* constraintValidator.validateComplexConstraints(intent, solution, dryRunResult)
\* returns
ValidateComplexReturns ==
  /\ validation.pc = "called" /\ validation.method = "validateComplexConstraints"
  /\ validation' = [validation EXCEPT
                      !.pc = "returned",
                      !.result = validateComplexConstraints(validation.intent,
                                                            validation.dryRunResult)]
  /\ UNCHANGED allButValidation

NextValidator ==
  \/ ValidateReturns
  \/ ValidateComplexReturns

\* calls of the constraint validator on their own, on every input
SpecValidator == InitValidator /\ [][NextValidator]_vars

\* --------------------------------------------- feature extraction: calls
allButExtraction == <<chain, ingestVars, handlers, coordVars, storeVars,
                      rankingQueue, redisQ, histVars, nHand, nManual, nCrash,
                      pipeline, validation, listener>>

\* const features = this.extractFeatures(intent, solution, dryRunResult) and
\* the return of processSingleSolution: passed with the features, or the
\* processing error of the catch block when the extraction throws
ExtractFeaturesReturns ==
  /\ extraction.pc = "extractFeatures"
  /\ LET features == extractFeatures(extraction.intent, extraction.dryRunResult)
     IN extraction' =
          [extraction EXCEPT
             !.pc = "returned",
             !.features = features.value,
             !.result = IF features.threw THEN Caught("TypeError") ELSE Passed]
  /\ UNCHANGED allButExtraction

NextFeatures == ExtractFeaturesReturns

\* the tail of processSingleSolution on its own, on every dry-run result
SpecFeatures == InitFeatures /\ [][NextFeatures]_vars

allButListener == <<chain, ingestVars, handlers, coordVars, storeVars,
                    rankingQueue, redisQ, histVars, nHand, nManual, nCrash,
                    pipeline, validation, extraction>>

\* a call of startEventListener
StartEventListener ==
  /\ listener' = startEventListener(listener)
  /\ UNCHANGED allButListener

\* a call of stopEventListener
StopEventListener ==
  /\ listener' = stopEventListener(listener)
  /\ UNCHANGED allButListener

\* calls of start and stop in any order, and the ticks of the interval taken
\* one after another
NextListener ==
  \/ StartEventListener
  \/ StopEventListener
  \/ \E e \in ChainEvents : ChainEmit(e)
  \/ TickStart(1)
  \/ IntentQueryReturn(1)
  \/ SolutionQueryReturn(1)
  \/ StoreCursorDone(1)

SpecListener == Init /\ [][NextListener]_vars

Next ==
  \/ \E e \in ChainEvents : ChainEmit(e)
  \/ \E t \in TickIds : TickStart(t)
  \/ \E t \in TickIds : IntentQueryReturn(t)
  \/ \E t \in TickIds : QueryFail(t)
  \/ \E t \in TickIds : SolutionQueryReturn(t)
  \/ \E t \in TickIds : StoreCursorDone(t)
  \/ \E t \in TickIds : StoreCursorFail(t)
  \/ \E n \in HandlerIds : IntentFetched(n)
  \/ \E n \in HandlerIds : IntentFetchFail(n)
  \/ \E n \in HandlerIds : IntentStored(n)
  \/ \E n \in HandlerIds : SolutionFetched(n)
  \/ \E n \in HandlerIds : SolutionFetchFail(n)
  \/ \E n \in HandlerIds, passed \in BOOLEAN : SolutionPreranked(n, passed)
  \/ \E n \in HandlerIds : SolutionRecordSet(n)
  \/ \E n \in HandlerIds : SolutionSetAdded(n)
  \/ \E i \in Intents : TimerFire(i)
  \/ \E i \in Intents : TriggerSendToRanking(i)
  \/ \E n \in FlushIds : FlushSmembers(n)
  \/ \E n \in FlushIds : FlushGets(n)
  \/ \E n \in FlushIds : FlushScard(n)
  \/ \E n \in FlushIds : FlushLpush(n)
  \/ \E n \in FlushIds : FlushDelReadPassed(n)
  \/ \E n \in FlushIds : FlushDelReadFailed(n)
  \/ \E n \in FlushIds : FlushDel(n)
  \/ \E n \in FlushIds : FlushFail(n)
  \/ Restart
  \/ NextPipeline
  \/ NextValidator
  \/ NextFeatures
  \/ StartEventListener
  \/ StopEventListener

Spec == Init /\ [][Next]_vars

\* the ingestion loop with the handlers it starts; no window closes
NextIngest ==
  \/ \E e \in ChainEvents : ChainEmit(e)
  \/ \E t \in TickIds : TickStart(t)
  \/ \E t \in TickIds : IntentQueryReturn(t)
  \/ \E t \in TickIds : QueryFail(t)
  \/ \E t \in TickIds : SolutionQueryReturn(t)
  \/ \E t \in TickIds : StoreCursorDone(t)
  \/ \E t \in TickIds : StoreCursorFail(t)
  \/ \E n \in HandlerIds : IntentFetched(n)
  \/ \E n \in HandlerIds : IntentFetchFail(n)
  \/ \E n \in HandlerIds : IntentStored(n)
  \/ \E n \in HandlerIds : SolutionFetched(n)
  \/ \E n \in HandlerIds : SolutionFetchFail(n)
  \/ \E n \in HandlerIds, passed \in BOOLEAN : SolutionPreranked(n, passed)
  \/ \E n \in HandlerIds : SolutionRecordSet(n)
  \/ \E n \in HandlerIds : SolutionSetAdded(n)
  \/ Restart

SpecIngest == Init /\ [][NextIngest]_vars

\* the coordinator under a process that stays up and queries that succeed
NextCoord ==
  \/ \E e \in ChainEvents : ChainEmit(e)
  \/ \E t \in TickIds : TickStart(t)
  \/ \E t \in TickIds : IntentQueryReturn(t)
  \/ \E t \in TickIds : SolutionQueryReturn(t)
  \/ \E t \in TickIds : StoreCursorDone(t)
  \/ \E n \in HandlerIds : IntentFetched(n)
  \/ \E n \in HandlerIds : IntentStored(n)
  \/ \E n \in HandlerIds : SolutionFetched(n)
  \/ \E n \in HandlerIds, passed \in BOOLEAN : SolutionPreranked(n, passed)
  \/ \E n \in HandlerIds : SolutionRecordSet(n)
  \/ \E n \in HandlerIds : SolutionSetAdded(n)
  \/ \E i \in Intents : TimerFire(i)
  \/ \E i \in Intents : TriggerSendToRanking(i)
  \/ \E n \in FlushIds : FlushSmembers(n)
  \/ \E n \in FlushIds : FlushGets(n)
  \/ \E n \in FlushIds : FlushScard(n)
  \/ \E n \in FlushIds : FlushLpush(n)
  \/ \E n \in FlushIds : FlushDelReadPassed(n)
  \/ \E n \in FlushIds : FlushDelReadFailed(n)
  \/ \E n \in FlushIds : FlushDel(n)

SpecCoord == Init /\ [][NextCoord]_vars

\* one poll tick at a time in a process that stays up, with the handlers the
\* ticks start; no window closes
NextSerial ==
  \/ \E e \in ChainEvents : ChainEmit(e)
  \/ TickStart(1)
  \/ IntentQueryReturn(1)
  \/ QueryFail(1)
  \/ SolutionQueryReturn(1)
  \/ StoreCursorDone(1)
  \/ StoreCursorFail(1)
  \/ \E n \in HandlerIds : IntentFetched(n)
  \/ \E n \in HandlerIds : IntentFetchFail(n)
  \/ \E n \in HandlerIds : IntentStored(n)
  \/ \E n \in HandlerIds : SolutionFetched(n)
  \/ \E n \in HandlerIds : SolutionFetchFail(n)
  \/ \E n \in HandlerIds, passed \in BOOLEAN : SolutionPreranked(n, passed)
  \/ \E n \in HandlerIds : SolutionRecordSet(n)
  \/ \E n \in HandlerIds : SolutionSetAdded(n)

SpecSerial == Init /\ [][NextSerial]_vars

\* one poll tick at a time in a process that stays up, with the handlers,
\* the window timers and the flushes, whose Redis calls may reject
NextWindow ==
  \/ \E e \in ChainEvents : ChainEmit(e)
  \/ TickStart(1)
  \/ IntentQueryReturn(1)
  \/ SolutionQueryReturn(1)
  \/ StoreCursorDone(1)
  \/ \E n \in HandlerIds : IntentFetched(n)
  \/ \E n \in HandlerIds : IntentStored(n)
  \/ \E n \in HandlerIds : SolutionFetched(n)
  \/ \E n \in HandlerIds, passed \in BOOLEAN : SolutionPreranked(n, passed)
  \/ \E n \in HandlerIds : SolutionRecordSet(n)
  \/ \E n \in HandlerIds : SolutionSetAdded(n)
  \/ \E i \in Intents : TimerFire(i)
  \/ \E i \in Intents : TriggerSendToRanking(i)
  \/ \E n \in FlushIds : FlushSmembers(n)
  \/ \E n \in FlushIds : FlushGets(n)
  \/ \E n \in FlushIds : FlushScard(n)
  \/ \E n \in FlushIds : FlushLpush(n)
  \/ \E n \in FlushIds : FlushDelReadPassed(n)
  \/ \E n \in FlushIds : FlushDelReadFailed(n)
  \/ \E n \in FlushIds : FlushDel(n)
  \/ \E n \in FlushIds : FlushFail(n)

SpecWindow == Init /\ [][NextWindow]_vars

\* as NextWindow, with no manual trigger: the windows close by their timers
NextTimer ==
  \/ \E e \in ChainEvents : ChainEmit(e)
  \/ TickStart(1)
  \/ IntentQueryReturn(1)
  \/ SolutionQueryReturn(1)
  \/ StoreCursorDone(1)
  \/ \E n \in HandlerIds : IntentFetched(n)
  \/ \E n \in HandlerIds : IntentStored(n)
  \/ \E n \in HandlerIds : SolutionFetched(n)
  \/ \E n \in HandlerIds, passed \in BOOLEAN : SolutionPreranked(n, passed)
  \/ \E n \in HandlerIds : SolutionRecordSet(n)
  \/ \E n \in HandlerIds : SolutionSetAdded(n)
  \/ \E i \in Intents : TimerFire(i)
  \/ \E n \in FlushIds : FlushSmembers(n)
  \/ \E n \in FlushIds : FlushGets(n)
  \/ \E n \in FlushIds : FlushScard(n)
  \/ \E n \in FlushIds : FlushLpush(n)
  \/ \E n \in FlushIds : FlushDelReadPassed(n)
  \/ \E n \in FlushIds : FlushDelReadFailed(n)
  \/ \E n \in FlushIds : FlushDel(n)
  \/ \E n \in FlushIds : FlushFail(n)

SpecTimer == Init /\ [][NextTimer]_vars

\* ------------------------------------------------------------- properties
\* number of payloads on the ranking queue for an intent id
Enqueued(i) == Cardinality({k \in 1..Len(rankingQueue) : rankingQueue[k].intentId = i})

\* C1: the ranking-queue enqueue is performed at most once per intent id, for
\* any trace of events, timer firings and manual triggers
AtMostOnceEnqueue == \A i \in Intents : Enqueued(i) <= 1

\* C2: the stored cursor never covers an event whose handler is still running
CursorBehindRunningHandlers == \A h \in handlers : h.pos > storedCursor

\* C3: every event at or before the stored cursor has been handed to the
\* coordinator
NoEventSkipped ==
  \A p \in 1..Len(chain) : p <= storedCursor => handedBy[p] >= 1

\* C4: the values written to the cursor store never decrease
CursorMonotone == [][storedCursor' >= storedCursor]_vars

\* C5: a solution event handed off after its intent's event is never dropped
\* as unknown because the intent's opening has not completed
IntentOpenBeforeSolution == droppedOpening = {}

ReplayIdempotent ==
  [][\A h \in handlers :
       (/\ h.pos \in delivered
        /\ h \notin handlers'
        /\ nCrash' = nCrash
        /\ h.intentId \notin terminated
        /\ ~ \E f \in flushes : f.intentId = h.intentId)
          => storeVars' = storeVars]_vars

\* no handler and no flush of the intent is between two of its steps
Quiet(i) == /\ ~ \E h \in handlers : h.intentId = i
            /\ ~ \E f \in flushes : f.intentId = i

\* C9: whenever an active intent is quiet, its context's passedSolutionCount
\* is the size of its passed set
CounterConsistent ==
  \A i \in Intents :
    (activeIntents[i] # 0 /\ Quiet(i))
      => contexts[activeIntents[i]].passedSolutionCount = Cardinality(passedSet[i])

\* C10: once a flush has removed an intent's context, no pass or fail record
\* of the intent appears in the store
NoPostFlushWrites ==
  [][\A i \in terminated :
       activeIntents[i] = 0 =>
         /\ passedSet'[i] \subseteq passedSet[i]
         /\ failedSet'[i] \subseteq failedSet[i]
         /\ \A s \in Solutions :
              /\ <<i, s>> \in solutionKey' => <<i, s>> \in solutionKey
              /\ <<i, s>> \in failedKey' => <<i, s>> \in failedKey]_vars

\* C11: no solution id is both in an intent's passed set and in its failed set
PassedFailedExclusive ==
  \A i \in Intents : passedSet[i] \cap failedSet[i] = {}

\* C12: the passed solutions stored for an intent are never deleted while no
\* payload for the intent has been enqueued
PassedNeverSilentlyDeleted ==
  [][\A i \in Intents :
       (passedSet[i] # {} /\ passedSet'[i] = {}) => Enqueued(i) >= 1]_vars

\* C13: at its enqueue, a payload's passedSolutions are exactly the pass
\* records stored for the intent and its totalSolutionsSubmitted is their
\* number plus the size of the intent's failed set
PayloadMatchesStore ==
  [][Len(rankingQueue') > Len(rankingQueue) =>
       LET payload == rankingQueue'[Len(rankingQueue')]
           i == payload.intentId
       IN /\ payload.passedSolutions = {s \in Solutions : <<i, s>> \in solutionKey'}
          /\ payload.totalSolutionsSubmitted =
               Cardinality(payload.passedSolutions) + Cardinality(failedSet'[i])]_vars

\* C14: a flush on the zero-counter path enqueues nothing, leaves no key of
\* the intent's tree in the store and removes one entry of the active map
EmptyFlushDeletesTree ==
  [][\A f \in flushes :
       (f.pc = "del" /\ f \notin flushes') =>
         /\ rankingQueue' = rankingQueue
         /\ f.intentId \notin intentKey'
         /\ passedSet'[f.intentId] = {} /\ failedSet'[f.intentId] = {}
         /\ \A s \in Solutions : /\ <<f.intentId, s>> \notin solutionKey'
                                 /\ <<f.intentId, s>> \notin failedKey'
         /\ activeIntents[f.intentId] # 0 /\ activeIntents'[f.intentId] = 0]_vars

\* the collaborator has been invoked by the current pipeline call
Called(name) == \E k \in 1..Len(pipeline.calls) : pipeline.calls[k] = name

\* Phase 1 has returned a result that is not valid
Phase1Invalid ==
  /\ pipeline.validationResult # NoValidation
  /\ ~pipeline.validationResult.threw
  /\ ~pipeline.validationResult.isValid

\* C15: when Phase 1 returns not valid the dry run is not invoked and the
\* pipeline returns a failed result with the constraint-validation reason and
\* the validator's errors
Phase1FastFail ==
  Phase1Invalid =>
    /\ ~Called("dryRun")
    /\ pipeline.pc = "done"
    /\ pipeline.result = Failed("Constraint validation failed",
                                pipeline.validationResult.errors)

\* a call has returned after Phase 1 found errors
Phase1InvalidReturned ==
  /\ Phase1Invalid
  /\ pipeline.pc = "done"
  /\ pipeline.validationResult.errors # <<>>

\* a collaborator of the current call has thrown
SomeStepThrew ==
  \/ pipeline.validationResult.threw
  \/ pipeline.dryRunResult.threw
  \/ pipeline.complexValidationResult.threw

\* C16: a call never ends by throwing; when a step has thrown, the call
\* returns passed = false with a non-empty error list
NeverThrows ==
  pipeline.pc = "done" =>
    /\ ~pipeline.result.thrown
    /\ SomeStepThrew => /\ ~pipeline.result.passed
                        /\ pipeline.result.errors # <<>>

\* a call has returned after the simulator call threw
DryRunThrewReturned ==
  pipeline.pc = "done" /\ pipeline.dryRunResult.threw

\* the three checks, in order, as settled by the current call
Phase1Ok  == ~pipeline.validationResult.threw /\ pipeline.validationResult.isValid
DryRunOk  == ~pipeline.dryRunResult.threw /\ pipeline.dryRunResult.status = "success"
Phase2Ok  == ~pipeline.complexValidationResult.threw
             /\ pipeline.complexValidationResult.isValid

\* the reason that names the first of the three steps that did not succeed
FirstFailedStep ==
  IF ~Phase1Ok THEN "Constraint validation failed"
  ELSE IF ~DryRunOk THEN "Dry run failed"
  ELSE "Complex validation failed"

\* C17 as stated: passed iff the three checks succeed, and a failed result
\* names the first step that failed
PassedIffAllOkNamed ==
  pipeline.pc = "done" =>
    /\ pipeline.result.passed <=> (Phase1Ok /\ DryRunOk /\ Phase2Ok)
    /\ ~pipeline.result.passed => pipeline.result.failureReason = FirstFailedStep

\* C17 as amended: passed iff the three checks succeed; a failed result names
\* the first step that returned a negative result, unless a step threw first,
\* in which case the reason is 'Processing error'
PassedIffAllOk ==
  pipeline.pc = "done" =>
    /\ pipeline.result.passed <=> (Phase1Ok /\ DryRunOk /\ Phase2Ok)
    /\ ~pipeline.result.passed =>
         pipeline.result.failureReason =
           IF SomeStepThrew THEN "Processing error" ELSE FirstFailedStep

\* a call has returned after Phase 1 and the dry run succeeded
Phase2Settled ==
  pipeline.pc = "done" /\ pipeline.complexValidationResult # NoValidation

\* the dry run has returned a status that is not success
DryRunNotSuccess ==
  /\ pipeline.dryRunResult # NoDryRun
  /\ ~pipeline.dryRunResult.threw
  /\ pipeline.dryRunResult.status # "success"

\* C18: when the dry run returns a non-success status the pipeline returns a
\* failed result with the dry-run reason and the simulator's error message,
\* and neither Phase 2 nor the feature extraction is invoked
DryRunFastFail ==
  DryRunNotSuccess =>
    /\ pipeline.pc = "done"
    /\ ~pipeline.result.passed
    /\ pipeline.result.failureReason = "Dry run failed"
    /\ pipeline.dryRunResult.error # "" =>
         pipeline.result.errors = <<pipeline.dryRunResult.error>>
    /\ ~Called("validateComplexConstraints")
    /\ ~Called("extractFeatures")

\* a call has returned after a failed dry run that carried a message
DryRunFailedReturned ==
  DryRunNotSuccess /\ pipeline.pc = "done" /\ pipeline.dryRunResult.error # ""

\* nothing is running and the cursors stand at the end of the chain
TraceComplete ==
  /\ handlers = {}
  /\ \A t \in TickIds : ticks[t].pc = "idle"
  /\ redisQ = <<>>
  /\ eventCursor = Len(chain) /\ storedCursor = Len(chain)

\* C19: once the trace is complete, every solution event that found its
\* intent's context and whose fetch succeeded has a pass or a fail record
PipelineVisitation ==
  TraceComplete =>
    \A p \in fetched :
      <<chain[p].intentId, chain[p].solutionId>> \in solutionKey \cup failedKey

\* C20: a solution handler whose fetch fails does not end without a failed
\* record for its pair
FetchFailureRecorded ==
  [][\A h \in handlers :
       (/\ h.kind = "solution" /\ h.pc = "fetch"
        /\ nCrash' = nCrash
        /\ ~ \E g \in handlers' : g.id = h.id)
         => <<h.intentId, h.solutionId>> \in failedKey']_vars

\* C21: a solution event handed off while the map holds no context for its
\* intent starts no handler (so no fetch, no pipeline run and no store write
\* follow), and the handoff leaves contexts, counters, timers, flushes, the
\* store and the ranking queue as they were
NoContextNoWork ==
  [][\A t \in TickIds :
       (ticks[t].pc = "q2" /\ ticks'[t].pc = "store") =>
         \A k \in 1..Len(ticks'[t].handed) :
           LET p == ticks'[t].handed[k] IN
           (chain[p].kind = "solution" /\ activeIntents[chain[p].intentId] = 0)
           => /\ ~ \E h \in handlers' \ handlers : h.pos = p
              /\ UNCHANGED <<coordVars, storeVars, rankingQueue>>]_vars

\* C21 witness: a solution was handed off after its intent's context had been
\* flushed, and nothing runs or has run for it
SolutionDroppedAfterFlush ==
  \E t \in TickIds : \E k \in 1..Len(ticks[t].handed) :
    LET p == ticks[t].handed[k] IN
    /\ ticks[t].pc = "store"
    /\ chain[p].kind = "solution"
    /\ chain[p].intentId \in terminated
    /\ activeIntents[chain[p].intentId] = 0
    /\ ~ \E h \in handlers : h.pos = p
    /\ p \notin fetched

\* C22: when the fetch of an intent body fails, the handler ends there: the
\* map, the number of active intents, the timers, the contexts and the store
\* are as they were
FetchFailureDropsIntent ==
  [][\A h \in handlers :
       (h.kind = "intent" /\ h.pc = "fetch" /\ ~ \E g \in handlers' : g.id = h.id)
       => /\ UNCHANGED <<activeIntents, timers, contexts, flushes, storeVars,
                         delivered>>
          /\ Cardinality({i \in Intents : activeIntents'[i] # 0})
               = Cardinality({i \in Intents : activeIntents[i] # 0})]_vars

\* C22 witness: an intent event was handed off, its handler has ended without
\* storing anything, and there is neither a context nor a timer for the intent
IntentDroppedOnFetchFailure ==
  \E p \in 1..Len(chain) :
    /\ chain[p].kind = "intent"
    /\ handedBy[p] > 0
    /\ ~ \E h \in handlers : h.pos = p
    /\ p \notin delivered
    /\ activeIntents[chain[p].intentId] = 0
    /\ timers[chain[p].intentId] = 0
    /\ chain[p].intentId \notin intentKey

\* an intent whose context accepts solutions: in the map, with no flush begun
Accepting(i) == activeIntents[i] # 0 /\ ~ \E f \in flushes : f.intentId = i

\* C23: an intent has a pending window-close timer exactly while it has an
\* accepting context, and never more than one
TimerIffAccepting ==
  \A i \in Intents : timers[i] <= 1 /\ (timers[i] > 0 <=> Accepting(i))

\* C24: an IntentSubmitted event that arrives for an intent that has a
\* context leaves the context that the map holds, its counter and the
\* intent's timer as they are
DuplicateIntentDropped ==
  [][\A i \in Intents :
       (activeIntents[i] # 0 /\ \E h \in handlers \ handlers' :
                                  h.kind = "intent" /\ h.intentId = i /\ h.known)
       => /\ activeIntents'[i] = activeIntents[i]
          /\ contexts'[activeIntents[i]] = contexts[activeIntents[i]]
          /\ timers'[i] = timers[i]]_vars

\* C25: a flush that ends, by its last store command or by a rejection of any
\* of its commands, leaves the map without a context for its intent; the
\* rejection ends inside the flush
FlushRemovesContext ==
  [][\A f \in flushes :
       (\A g \in flushes' : g.id # f.id) => activeIntents'[f.intentId] = 0]_vars

\* C25 witness: a timer-started flush has ended in the rejection of its
\* enqueue, and the context is gone
FailedFlushRemoved ==
  \E i \in lost :
    /\ activeIntents[i] = 0
    /\ ~ \E f \in flushes : f.intentId = i

\* C26: once the enqueue of an intent has been rejected, the context is gone,
\* the rejection leaves the store as it was, and no payload of the intent is
\* enqueued afterwards
LostStaysLost ==
  [][/\ \A i \in lost : Enqueued(i)' = Enqueued(i)
     /\ \A i \in lost' \ lost : activeIntents'[i] = 0 /\ UNCHANGED storeVars]_vars

\* C27: while no cursor store is pending, the in-memory cursor is the
\* persisted one: a tick that failed has left both where they were
CursorsDurable ==
  (\A t \in TickIds : ticks[t].pc # "store") => eventCursor = storedCursor

\* a call of the method has returned
Returned(method) == validation.pc = "returned" /\ validation.method = method

\* the returned error list has an entry on the field that names the asset
HasError(field, assetId) ==
  \E k \in 1..Len(validation.result.errors) :
    /\ validation.result.errors[k].field = field
    /\ validation.result.errors[k].assetId = assetId

\* C28: whatever the intent declares, validate returns isValid = false with
\* an error on the deadline field when the solution was submitted after the
\* window end, and no error on that field otherwise
DeadlineEnforced ==
  Returned("validate") =>
    IF validation.submittedAt > validation.windowEndMs
    THEN ~validation.result.isValid /\ HasError("constraints.deadlineMs", "")
    ELSE ~HasError("constraints.deadlineMs", "")

\* the balance changes of the dry run that credit the asset to the owner
CreditedTo(dryRunResult, assetId, owner) ==
  {k \in 1..Len(dryRunResult.balanceChanges) :
     /\ dryRunResult.balanceChanges[k].coinType = assetId
     /\ dryRunResult.balanceChanges[k].amount > 0
     /\ dryRunResult.balanceChanges[k].owner = owner}

RECURSIVE SumOfChanges(_, _)
\* the sum of the amounts of the balance changes at the indices S
SumOfChanges(dryRunResult, S) ==
  IF S = {} THEN 0
  ELSE LET k == CHOOSE x \in S : TRUE
       IN dryRunResult.balanceChanges[k].amount + SumOfChanges(dryRunResult, S \ {k})

\* C29: a minimum output fails exactly when the positive balance changes of
\* its asset credited to the intent's user sum to less than the minimum, or
\* there is none
MinOutputsOfUser ==
  Returned("validateComplexConstraints") =>
    \A k \in 1..Len(validation.intent.constraints.minOutputs) :
      LET minOutput == validation.intent.constraints.minOutputs[k]
          credits == CreditedTo(validation.dryRunResult, minOutput.assetId,
                                validation.intent.userAddress)
      IN HasError("constraints.minOutputs", minOutput.assetId)
         <=> (credits = {}
              \/ SumOfChanges(validation.dryRunResult, credits) < minOutput.amount)

\* the balance changes of the dry run that credit the asset
Credited(dryRunResult, assetId) ==
  {k \in 1..Len(dryRunResult.balanceChanges) :
     /\ dryRunResult.balanceChanges[k].coinType = assetId
     /\ dryRunResult.balanceChanges[k].amount > 0}

\* the amount the dry run credits for the asset: that of the first credit
AmountCredited(dryRunResult, assetId) ==
  dryRunResult.balanceChanges[First(Credited(dryRunResult, assetId))].amount

\* C30: with a slippage cap declared, an expected output with expected > 0
\* whose asset the dry run credits fails exactly when
\* floor((expected - actual) * 10000 / expected) exceeds the cap
SlippageRule ==
  (Returned("validateComplexConstraints")
   /\ validation.intent.constraints.maxSlippageBps # Undefined) =>
    \A k \in 1..Len(validation.intent.expectedOutputs) :
      LET expected == validation.intent.expectedOutputs[k]
          actual == AmountCredited(validation.dryRunResult, expected.assetId)
      IN (expected.amount > 0
          /\ Credited(validation.dryRunResult, expected.assetId) # {})
         => (HasError("constraints.maxSlippageBps", expected.assetId)
             <=> ((expected.amount - actual) * 10000) \div expected.amount
                   > validation.intent.constraints.maxSlippageBps)

\* C30 witness: an expected output was rejected for a slippage that is not a
\* whole number of basis points
SlippageRejected ==
  /\ Returned("validateComplexConstraints")
  /\ \E k \in 1..Len(validation.intent.expectedOutputs) :
       LET expected == validation.intent.expectedOutputs[k]
           actual == AmountCredited(validation.dryRunResult, expected.assetId)
       IN /\ expected.amount > 0
          /\ Credited(validation.dryRunResult, expected.assetId) # {}
          /\ ((expected.amount - actual) * 10000) % expected.amount # 0
          /\ HasError("constraints.maxSlippageBps", expected.assetId)

\* C31: with a slippage cap of zero or more declared, an expected output whose
\* asset the dry run credits with at least the expected amount gets no error
\* of the max-slippage check
NegativeSlippagePasses ==
  (Returned("validateComplexConstraints")
   /\ validation.intent.constraints.maxSlippageBps # Undefined
   /\ validation.intent.constraints.maxSlippageBps >= 0) =>
    \A k \in 1..Len(validation.intent.expectedOutputs) :
      LET expected == validation.intent.expectedOutputs[k]
      IN (/\ Credited(validation.dryRunResult, expected.assetId) # {}
          /\ AmountCredited(validation.dryRunResult, expected.assetId)
               >= expected.amount)
         => ~HasError("constraints.maxSlippageBps", expected.assetId)

\* C31 witness: under a cap of 0 an output credited with more than the
\* expected, positive amount was accepted
SurplusAccepted ==
  /\ Returned("validateComplexConstraints")
  /\ validation.intent.constraints.maxSlippageBps = 0
  /\ validation.result.isValid
  /\ \E k \in 1..Len(validation.intent.expectedOutputs) :
       LET expected == validation.intent.expectedOutputs[k]
       IN /\ expected.amount > 0
          /\ Credited(validation.dryRunResult, expected.assetId) # {}
          /\ AmountCredited(validation.dryRunResult, expected.assetId)
               > expected.amount

\* what the dry run reports as storage rebate, 0 when it reports none
RebateOf(gasUsed) ==
  IF gasUsed.storageRebate = Undefined THEN 0 ELSE gasUsed.storageRebate

\* C32: with a gas cap declared and gas reported, the result has an error on
\* the max-gas field, and is invalid, exactly when computation + storage -
\* rebate exceeds the cap; gas equal to the cap has no such error
GasCapRule ==
  (Returned("validateComplexConstraints")
   /\ validation.intent.constraints.maxGasCost # Undefined
   /\ validation.dryRunResult.gasUsed.declared) =>
    LET gasUsed == validation.dryRunResult.gasUsed
        total == gasUsed.computationCost + gasUsed.storageCost - RebateOf(gasUsed)
        over == total > validation.intent.constraints.maxGasCost
    IN /\ HasError("constraints.maxGasCost", "") <=> over
       /\ over => ~validation.result.isValid

\* C32 witness: gas that a positive rebate brings down to exactly the cap was
\* accepted
GasAtCapAccepted ==
  /\ Returned("validateComplexConstraints")
  /\ validation.intent.constraints.maxGasCost # Undefined
  /\ validation.dryRunResult.gasUsed.declared
  /\ RebateOf(validation.dryRunResult.gasUsed) > 0
  /\ validation.dryRunResult.gasUsed.computationCost
       + validation.dryRunResult.gasUsed.storageCost
       - RebateOf(validation.dryRunResult.gasUsed)
     = validation.intent.constraints.maxGasCost
  /\ validation.result.isValid
  /\ validation.result.errors = <<>>

\* the returned error list has an entry of severity error on the field that
\* names the asset
Rejected(field, assetId) ==
  \E k \in 1..Len(validation.result.errors) :
    /\ validation.result.errors[k].field = field
    /\ validation.result.errors[k].assetId = assetId
    /\ validation.result.errors[k].severity = "error"

\* the realised price of the call as the fraction num / den: input over
\* output (both normalised by their decimals) in terms of the input asset,
\* output over input in terms of the output asset
RealisedPrice ==
  LET inputAsset == validation.intent.inputs[1]
      outputAsset == validation.intent.outputs[1]
      in == [num |-> inputAsset.value, den |-> Pow10(inputAsset.decimals)]
      out == [num |-> AmountCredited(validation.dryRunResult, outputAsset.assetId),
              den |-> Pow10(outputAsset.decimals)]
  IN IF validation.intent.constraints.limitPrice.priceAsset = inputAsset.assetId
     THEN [num |-> in.num * out.den, den |-> in.den * out.num]
     ELSE [num |-> out.num * in.den, den |-> out.den * in.num]

\* the call has a realised price: an exact primary input, an output the dry
\* run credits, and a price asset that is one of the two
HasRealisedPrice ==
  /\ Returned("validateComplexConstraints")
  /\ validation.intent.constraints.limitPrice.declared
  /\ validation.intent.inputs # <<>> /\ validation.intent.outputs # <<>>
  /\ validation.intent.inputs[1].type = "exact"
  /\ Credited(validation.dryRunResult, validation.intent.outputs[1].assetId) # {}
  /\ validation.intent.constraints.limitPrice.priceAsset
       \in {validation.intent.inputs[1].assetId, validation.intent.outputs[1].assetId}
  /\ RealisedPrice.den > 0

\* C33: the limit-price check fails exactly when the comparison is gte and
\* the realised price is below the limit, or the comparison is lte and the
\* realised price is above it; a realised price equal to the limit passes
LimitPriceRule ==
  HasRealisedPrice =>
    LET limit == validation.intent.constraints.limitPrice
        below == RealisedPrice.num < limit.price * RealisedPrice.den
        above == RealisedPrice.num > limit.price * RealisedPrice.den
    IN Rejected("constraints.limitPrice", limit.priceAsset)
       <=> ((limit.comparison = "gte" /\ below) \/ (limit.comparison = "lte" /\ above))

\* the fields of the checks that read the parsed transaction
ParsedFields ==
  {"constraints.maxInputs", "constraints.routing.maxHops",
   "constraints.routing.blacklistProtocols",
   "constraints.routing.whitelistProtocols"}

\* C34: the parse of the transaction bytes determines nothing, and validate
\* returns no error of the max-inputs, max-hops, blacklist and whitelist
\* checks, whatever caps and lists the intent declares
UndeterminedChecksSkipped ==
  Returned("validate") =>
    \A k \in 1..Len(validation.result.errors) :
      validation.result.errors[k].field \notin ParsedFields

\* C34 witness: validate accepted a solution in time under an input cap, a
\* hop cap of 0, a blacklist and a whitelist
CapsAndListsSkipped ==
  /\ Returned("validate")
  /\ validation.submittedAt <= validation.windowEndMs
  /\ validation.intent.constraints.maxInputs # <<>>
  /\ validation.intent.constraints.routing.declared
  /\ validation.intent.constraints.routing.maxHops = 0
  /\ validation.intent.constraints.routing.blacklistProtocols # <<>>
  /\ validation.intent.constraints.routing.whitelistProtocols # <<>>
  /\ validation.result.isValid
  /\ validation.result.errors = <<>>

ValidIffNoError ==
  validation.pc = "returned" =>
    (validation.result.isValid
     <=> \A k \in 1..Len(validation.result.errors) :
           validation.result.errors[k].severity # "error")

\* C36 witness: a limit price in terms of an asset that is neither the input
\* nor the output left a warning, and the result is valid
WarningOnlyValid ==
  /\ Returned("validateComplexConstraints")
  /\ validation.intent.inputs # <<>> /\ validation.intent.outputs # <<>>
  /\ validation.intent.constraints.limitPrice.declared
  /\ validation.intent.constraints.limitPrice.priceAsset
       \notin {validation.intent.inputs[1].assetId,
               validation.intent.outputs[1].assetId}
  /\ validation.result.errors
       = <<ValidationError("constraints.limitPrice", "warning",
                           validation.intent.constraints.limitPrice.priceAsset)>>
  /\ validation.result.isValid

\* C37: whatever the events, balance changes, object changes and gas of the
\* dry run, processSingleSolution returns after the feature extraction with
\* passed = true, a hop count of at least 1 and a protocol count of at
\* least 1
FeaturesNeverFail ==
  extraction.pc = "returned" =>
    /\ extraction.result = Passed
    /\ extraction.features.totalHops >= 1
    /\ extraction.features.protocolsCount >= 1

\* C37 witness: the solution passed although none of the three lists of its
\* dry run is a readable list and the computation cost is not a number
MalformedDryRunPassed ==
  /\ extraction.pc = "returned"
  /\ Unreadable(extraction.dryRunResult.events)
  /\ Unreadable(extraction.dryRunResult.balanceChanges)
  /\ Unreadable(extraction.dryRunResult.objectChanges)
  /\ extraction.dryRunResult.computationCost = Malformed
  /\ extraction.intent.constraints.minOutputs # <<>>
  /\ extraction.result.passed
  /\ extraction.features.totalHops = 1
  /\ extraction.features.protocolsCount = 1

\* nothing of the intent is left in the store: no body, both sets empty, no
\* pass record and no fail record
TreeGone(i) ==
  /\ i \notin intentKey
  /\ passedSet[i] = {} /\ failedSet[i] = {}
  /\ \A s \in Solutions : <<i, s>> \notin solutionKey /\ <<i, s>> \notin failedKey

\* C38: when deleteIntentData(i) has made its DEL, nothing of intent i is
\* left in the store, and the keys of the other intents and the stored
\* cursor are as before
DeleteRemovesTree ==
  [][\A n \in FlushIds : \A f \in flushes :
       (f.id = n /\ FlushDel(n)) =>
         /\ TreeGone(f.intentId)'
         /\ storedCursor' = storedCursor
         /\ \A j \in Intents \ {f.intentId} :
              /\ (j \in intentKey') = (j \in intentKey)
              /\ passedSet'[j] = passedSet[j] /\ failedSet'[j] = failedSet[j]
              /\ \A s \in Solutions :
                   /\ (<<j, s>> \in solutionKey') = (<<j, s>> \in solutionKey)
                   /\ (<<j, s>> \in failedKey') = (<<j, s>> \in failedKey)]_vars

\* the executions of the interval callback that have started and not ended
RunningTicks == {t \in TickIds : ticks[t].pc # "idle"}

\* C39: at most one execution of the interval callback is between its start
\* and its end (querying, handing off or storing the cursor) at any time
OneTickAtATime == Cardinality(RunningTicks) <= 1

\* C40: after any sequence of startEventListener and stopEventListener calls
\* at most one polling interval is live; a start call made while listening
\* sets no timer; a tick starts only while the listener is listening, so none
\* starts between a stop and the next start
SingleInterval ==
  [][/\ Cardinality(listener'.active) <= 1
     /\ (listener.isListening => listener'.active \subseteq listener.active)
     /\ \A t \in TickIds :
          (ticks[t].pc = "idle" /\ ticks'[t].pc # "idle")
            => listener.isListening]_vars

\* a start call was ignored at the guard, the listener was stopped and started
\* again, and a tick of the one live interval is running
ListenerRestarted ==
  /\ listener.ignored /\ listener.restarted /\ listener.isListening
  /\ Cardinality(listener.active) = 1
  /\ \E t \in TickIds : ticks[t].pc # "idle"

====
